---- MODULE Spec2Model ----
(***************************************************************************)
(* Mesh deduplication core of the OpenGEX exporter (src/__init__.py):      *)
(* ExportVertex (__eq__, Hash), OpenGexExporter.DeindexMesh,               *)
(* OpenGexExporter.FindExportVertex and OpenGexExporter.UnifyVertices, as  *)
(* driven by OpenGexExporter.ExportGeometry.                               *)
(*                                                                         *)
(* Scalars are integer-valued floats, written as integers.  Python's int   *)
(* is unbounded, so the vertex hash is kept as a sign-magnitude number     *)
(* with little-endian limbs in base 2^16.  Python lists are 0-based; the   *)
(* sequences here are 1-based, so list[i] is seq[i + 1].                   *)
(***************************************************************************)
EXTENDS Integers, Sequences, FiniteSets, TLC

\* ------------------------------------------------------------------ bounds

\* Faces of an arbitrary mesh: every sequence of that many face choices.
MaxFaces == 2
\* Faces of a tiled mesh (a short mesh repeated), long enough for more than
\* one hash bucket: 3 * BigFaces >> 3 > 1.
BigFaces == 6
\* Calls of UnifyVertices on the same expanded sequence.
MaxCalls == 2
\* Longest expanded sequence whose bucket sizing is followed pass by pass:
\* 63 >> 3 = 7 has three bits set.
MaxLength == 63

\* ------------------------------------------------- unbounded int arithmetic

\* Limb base of the hash representation.
Base == 2^16

\* The multiplier of ExportVertex.Hash.
HashMultiplier == 21737

Abs(x) == IF x < 0 THEN 0 - x ELSE x

\* A small int (|c| < Base) as an unbounded int.
BigOfSmall(c) ==
    [neg |-> c < 0, mag |-> IF c = 0 THEN <<>> ELSE <<Abs(c)>>]

RECURSIVE MagMulSmall(_, _, _)
MagMulSmall(mag, m, carry) ==
    IF mag = <<>>
    THEN IF carry = 0 THEN <<>> ELSE <<carry>>
    ELSE LET p == Head(mag) * m + carry
         IN  <<p % Base>> \o MagMulSmall(Tail(mag), m, p \div Base)

RECURSIVE MagAddSmall(_, _)
MagAddSmall(mag, c) ==
    IF c = 0 THEN mag
    ELSE IF mag = <<>> THEN <<c>>
    ELSE LET s == Head(mag) + c
         IN  <<s % Base>> \o MagAddSmall(Tail(mag), s \div Base)

\* mag - c for mag >= c.
RECURSIVE MagSubSmall(_, _)
MagSubSmall(mag, c) ==
    IF c = 0 THEN mag
    ELSE LET d == Head(mag) - c
         IN  IF d >= 0 THEN <<d>> \o Tail(mag)
             ELSE <<d + Base>> \o MagSubSmall(Tail(mag), 1)

RECURSIVE MagNorm(_)
MagNorm(mag) ==
    IF mag = <<>> THEN <<>>
    ELSE IF mag[Len(mag)] = 0 THEN MagNorm(SubSeq(mag, 1, Len(mag) - 1))
    ELSE mag

\* h * m + c on Python ints: h unbounded, 0 < m < Base, |c| < Base.
BigMulAdd(h, m, c) ==
    LET M == MagMulSmall(h.mag, m, 0)
    IN  IF c = 0 THEN [neg |-> h.neg, mag |-> M]
        ELSE IF M = <<>> THEN BigOfSmall(c)
        ELSE IF h.neg = (c < 0)
             THEN [neg |-> h.neg, mag |-> MagAddSmall(M, Abs(c))]
        ELSE IF Len(M) > 1 \/ M[1] >= Abs(c)
             THEN LET D == MagNorm(MagSubSmall(M, Abs(c)))
                  IN  [neg |-> IF D = <<>> THEN FALSE ELSE h.neg, mag |-> D]
        ELSE [neg |-> c < 0, mag |-> <<Abs(c) - M[1]>>]

\* a & b on naturals.
RECURSIVE BitAnd(_, _)
BitAnd(a, b) ==
    IF a = 0 \/ b = 0 THEN 0
    ELSE (a % 2) * (b % 2) + 2 * BitAnd(a \div 2, b \div 2)

\* h & mask taken on the magnitude of h, the sign left aside.
BigAndSmallMagnitude(h, mask) ==
    LET low == IF h.mag = <<>> THEN 0 ELSE h.mag[1]
    IN  BitAnd(low, mask)

\* h & mask for an unbounded Python int h and 0 <= mask < Base: Python's &
\* works on the infinite two's complement of a negative number.
BigAndSmall(h, mask) ==
    LET low == IF h.mag = <<>> THEN 0 ELSE h.mag[1]
    IN  IF h.neg THEN BitAnd((Base - low) % Base, mask)
        ELSE BitAnd(low, mask)

\* ----------------------------------------------------------- ExportVertex

\* The hash slot of an ExportVertex on which Hash() has not run yet.
NoHash == [neg |-> TRUE, mag |-> <<>>]

\* ExportVertex.__init__: color, texcoord0 and texcoord1 get defaults, the
\* other slots stay unset.
NewExportVertex ==
    [hash |-> NoHash, vertexIndex |-> -1, faceIndex |-> -1,
     position |-> <<>>, normal |-> <<>>, tangent |-> <<>>,
     color |-> <<1, 1, 1>>, texcoord0 |-> <<0, 0>>, texcoord1 |-> <<0, 0>>]

\* ExportVertex.__eq__ with the position test left out.
ExportVertexEqNoPosition(self, v) ==
    /\ self.hash = v.hash
    /\ self.normal = v.normal
    /\ self.tangent = v.tangent
    /\ self.color = v.color
    /\ self.texcoord0 = v.texcoord0
    /\ self.texcoord1 = v.texcoord1

\* ExportVertex.__eq__ that also compares vertexIndex and faceIndex.
ExportVertexEqWithSource(self, v) ==
    /\ self.hash = v.hash
    /\ self.vertexIndex = v.vertexIndex
    /\ self.faceIndex = v.faceIndex
    /\ self.position = v.position
    /\ self.normal = v.normal
    /\ self.tangent = v.tangent
    /\ self.color = v.color
    /\ self.texcoord0 = v.texcoord0
    /\ self.texcoord1 = v.texcoord1

\* ExportVertex.__eq__ that trusts the hash alone.
ExportVertexEqHashOnly(self, v) == self.hash = v.hash

\* ExportVertex.__eq__: each test returns False on the first difference.
ExportVertexEq(self, v) ==
    IF self.hash # v.hash THEN FALSE
    ELSE IF self.position # v.position THEN FALSE
    ELSE IF self.normal # v.normal THEN FALSE
    ELSE IF self.tangent # v.tangent THEN FALSE
    ELSE IF self.color # v.color THEN FALSE
    ELSE IF self.texcoord0 # v.texcoord0 THEN FALSE
    ELSE IF self.texcoord1 # v.texcoord1 THEN FALSE
    ELSE TRUE

\* Python's hash() of an integer-valued float x, |x| < 2^61 - 1: the hash of
\* the int, where -1 is reserved and hashes to -2.
PyHash(x) == IF x = -1 THEN -2 ELSE x

\* The 16 scalars in the order Hash() reads them.
HashComponents(self) ==
    self.position \o self.normal \o self.tangent \o self.color
        \o self.texcoord0 \o self.texcoord1

\* h = h * 21737 + hash(component) for components k .. 16.
RECURSIVE HashFold(_, _, _)
HashFold(h, comps, k) ==
    IF k > Len(comps) THEN h
    ELSE HashFold(BigMulAdd(h, HashMultiplier, PyHash(comps[k])), comps, k + 1)

\* A hash that also mixes in the source vertex id.
HashWithVertexIndex(self) ==
    LET comps == <<self.vertexIndex>> \o HashComponents(self)
    IN  HashFold(BigOfSmall(PyHash(comps[1])), comps, 2)

\* h reduced to a signed 64-bit integer, as fixed-width arithmetic wraps it.
Wrap64(h) ==
    LET u == [k \in 1..4 |-> IF k <= Len(h.mag) THEN h.mag[k] ELSE 0]
        comp == MagNorm(MagAddSmall([k \in 1..4 |-> Base - 1 - u[k]], 1))
        small == u[4] < 2^15
    IN  IF u = <<0, 0, 0, 0>> THEN [neg |-> FALSE, mag |-> <<>>]
        ELSE IF h.neg
             THEN IF small \/ u = <<0, 0, 0, 2^15>>
                  THEN [neg |-> TRUE, mag |-> MagNorm(u)]
                  ELSE [neg |-> FALSE, mag |-> comp]
        ELSE IF small THEN [neg |-> FALSE, mag |-> MagNorm(u)]
             ELSE [neg |-> TRUE, mag |-> comp]

\* A hash kept within 64 bits.
Hash64(self) ==
    LET comps == HashComponents(self)
    IN  Wrap64(HashFold(BigOfSmall(PyHash(comps[1])), comps, 2))

\* A hash that leaves the tangent out.
HashSkipTangent(self) ==
    LET comps == self.position \o self.normal \o self.color
                    \o self.texcoord0 \o self.texcoord1
    IN  HashFold(BigOfSmall(PyHash(comps[1])), comps, 2)

\* The value ExportVertex.Hash() stores in self.hash.
Hash(self) ==
    LET comps == HashComponents(self)
    IN  HashFold(BigOfSmall(PyHash(comps[1])), comps, 2)

\* ------------------------------------------------------------- the mesh

\* mesh.vertices of every mesh explored (vertex id k is entry k + 1).
\* Ids 0 and 2 are one location entered twice; ids 0 and 1 differ in position
\* and get the same Hash(); ids 3 and 4 differ in position and their first
\* coordinates have the same native hash.
MeshVertices ==
    << [co |-> <<1, 0, 0>>,     normal |-> <<0, 0, 1>>],
       [co |-> <<0, 21737, 0>>, normal |-> <<0, 0, 1>>],
       [co |-> <<1, 0, 0>>,     normal |-> <<0, 0, 1>>],
       [co |-> <<-1, 0, 0>>,    normal |-> <<0, 0, 1>>],
       [co |-> <<-2, 0, 0>>,    normal |-> <<0, 0, 1>>],
       [co |-> <<2, 0, 0>>,     normal |-> <<0, 1, 0>>] >>

\* The faces a mesh is built from.  A face carries what the host gives for
\* it: its vertex ids, smooth flag, normal and material slot, and the data of
\* its loops (tangent, color of the first color layer, uv of the first and
\* second UV layer).  The first two faces are smooth and share the edge of
\* vertices 1 and 5; the fifth has three corners at one location; the last
\* is a quad, which the host leaves in mesh.polygons untriangulated.
FaceChoices ==
    { [vertices |-> <<0, 1, 5>>, use_smooth |-> TRUE, normal |-> <<0, 0, 1>>,
       material_index |-> 0,
       tangents |-> << <<1, 0, 0>>, <<1, 0, 0>>, <<1, 0, 0>> >>,
       colors |-> << <<1, 0, 0>>, <<0, 1, 0>>, <<0, 0, 1>> >>,
       uv0 |-> << <<0, 0>>, <<1, 0>>, <<0, 1>> >>,
       uv1 |-> << <<0, 0>>, <<0, 0>>, <<0, 0>> >>],
      [vertices |-> <<3, 5, 1>>, use_smooth |-> TRUE, normal |-> <<0, 1, 0>>,
       material_index |-> 1,
       tangents |-> << <<1, 0, 0>>, <<1, 0, 0>>, <<1, 0, 0>> >>,
       colors |-> << <<1, 0, 0>>, <<0, 0, 1>>, <<0, 1, 0>> >>,
       uv0 |-> << <<0, 0>>, <<0, 1>>, <<1, 0>> >>,
       uv1 |-> << <<0, 0>>, <<0, 0>>, <<0, 0>> >>],
      [vertices |-> <<3, 4, 5>>, use_smooth |-> FALSE, normal |-> <<1, 0, 0>>,
       material_index |-> 0,
       tangents |-> << <<1, 0, 0>>, <<1, 0, 0>>, <<1, 0, 0>> >>,
       colors |-> << <<1, 1, 1>>, <<1, 1, 1>>, <<1, 1, 1>> >>,
       uv0 |-> << <<0, 0>>, <<0, 0>>, <<0, 1>> >>,
       uv1 |-> << <<0, 0>>, <<0, 21737>>, <<1, 0>> >>],
      [vertices |-> <<2, 4, 3>>, use_smooth |-> TRUE, normal |-> <<0, 0, 1>>,
       material_index |-> 2,
       tangents |-> << <<1, 0, 0>>, <<0, 1, 0>>, <<0, 1, 0>> >>,
       colors |-> << <<1, 0, 0>>, <<1, 1, 1>>, <<1, 1, 1>> >>,
       uv0 |-> << <<0, 0>>, <<0, 0>>, <<0, 0>> >>,
       uv1 |-> << <<0, 0>>, <<0, 0>>, <<0, 0>> >>],
      [vertices |-> <<0, 2, 0>>, use_smooth |-> TRUE, normal |-> <<0, 0, 1>>,
       material_index |-> 0,
       tangents |-> << <<1, 0, 0>>, <<1, 0, 0>>, <<1, 0, 0>> >>,
       colors |-> << <<1, 0, 0>>, <<1, 0, 0>>, <<1, 0, 0>> >>,
       uv0 |-> << <<0, 0>>, <<0, 0>>, <<0, 0>> >>,
       uv1 |-> << <<0, 0>>, <<0, 0>>, <<0, 0>> >>],
      [vertices |-> <<0, 1, 5, 3>>, use_smooth |-> TRUE, normal |-> <<0, 0, 1>>,
       material_index |-> 0,
       tangents |-> << <<1, 0, 0>>, <<1, 0, 0>>, <<1, 0, 0>>, <<1, 0, 0>> >>,
       colors |-> << <<1, 0, 0>>, <<0, 1, 0>>, <<0, 0, 1>>, <<1, 1, 1>> >>,
       uv0 |-> << <<0, 0>>, <<1, 0>>, <<0, 1>>, <<1, 1>> >>,
       uv1 |-> << <<0, 0>>, <<0, 0>>, <<0, 0>>, <<0, 0>> >>] }

\* The numbers of vertex-color layers explored: DeindexMesh reads the first
\* layer only, and only asks whether there is one.
ColorLayerCounts == {0, 1}

\* The numbers of UV layers explored: DeindexMesh reads the first two layers
\* only, and only asks whether there is one and whether there is more than
\* one.
UVLayerCounts == {0, 1, 2, 3}

\* Sequences of at most n elements of S.
SeqUpTo(S, n) == UNION {[1..k -> S] : k \in 0..n}

\* Face t (1 .. T) of the mesh built by repeating base.
FaceAt(base, t) == base[((t - 1) % Len(base)) + 1]

\* The index of the first loop of face t: loops are numbered face by face.
RECURSIVE LoopStart(_, _)
LoopStart(base, t) ==
    IF t = 1 THEN 0
    ELSE LoopStart(base, t - 1) + Len(FaceAt(base, t - 1).vertices)

\* The loop data (tangent, uv of both layers) of faces t .. T, loop by loop.
RECURSIVE LoopDataFrom(_, _, _)
LoopDataFrom(base, T, t) ==
    IF t > T THEN <<>>
    ELSE LET f == FaceAt(base, t)
         IN  [c \in 1..Len(f.vertices) |->
                 [tangent |-> f.tangents[c], uv0 |-> f.uv0[c], uv1 |-> f.uv1[c]]]
             \o LoopDataFrom(base, T, t + 1)

\* The loop triangles of faces t .. T: a triangle has one, a larger face is
\* cut into a fan.
RECURSIVE LoopTrianglesFrom(_, _, _)
LoopTrianglesFrom(base, T, t) ==
    IF t > T THEN <<>>
    ELSE LET s0 == LoopStart(base, t)
         IN  [j \in 1..(Len(FaceAt(base, t).vertices) - 2) |->
                 [loops |-> <<s0, s0 + j, s0 + j + 1>>]]
             \o LoopTrianglesFrom(base, T, t + 1)

\* The host's mesh of T faces, face t being base[t mod Len(base)], with nColor
\* vertex-color layers and nUV UV layers, after calc_loop_triangles and
\* calc_tangents.
MakeMesh(base, T, nColor, nUV) ==
    LET loopData == LoopDataFrom(base, T, 1)
    IN  [vertices |-> MeshVertices,
         polygons |-> [t \in 1..T |->
             [vertices |-> FaceAt(base, t).vertices,
              use_smooth |-> FaceAt(base, t).use_smooth,
              normal |-> FaceAt(base, t).normal,
              material_index |-> FaceAt(base, t).material_index,
              loop_indices |-> [c \in 1..Len(FaceAt(base, t).vertices) |->
                                   LoopStart(base, t) + c - 1]]],
         loops |-> [li \in 1..Len(loopData) |->
             [tangent |-> loopData[li].tangent]],
         loop_triangles |-> LoopTrianglesFrom(base, T, 1),
         vertex_colors |-> [n \in 1..nColor |->
             [data |-> [t \in 1..T |->
                 [color1 |-> FaceAt(base, t).colors[1],
                  color2 |-> FaceAt(base, t).colors[2],
                  color3 |-> FaceAt(base, t).colors[3]]]]],
         uv_layers |-> [n \in 1..nUV |->
             [data |-> [li \in 1..Len(loopData) |->
                 [uv |-> IF n = 1 THEN loopData[li].uv0
                         ELSE IF n = 2 THEN loopData[li].uv1
                         ELSE <<1, 1>>]]]]]

\* -------------------------------------------------------------- the state

VARIABLES
    mesh,               \* the host mesh handed to DeindexMesh
    materialTable,      \* ExportGeometry's materialTable
    exportVertexArray,  \* the expanded sequence
    faceIndex,          \* DeindexMesh's faceIndex
    vertexIndex,        \* DeindexMesh's vertexIndex (-1: not assigned yet)
    tri,                \* position of the texcoord loop in mesh.loop_triangles
    evIndex,            \* position of the hashing loop in exportVertexArray
    pc,                 \* where ExportGeometry's deduplication stands
    bucketCount,        \* UnifyVertices' bucketCount
    hashTable,          \* UnifyVertices' hashTable
    unifiedVertexArray, \* UnifyVertices' unifiedVertexArray
    indexTable,         \* ExportGeometry's indexTable
    i,                  \* UnifyVertices' loop variable
    call,               \* completed calls of UnifyVertices
    firstResult,        \* what the first call of UnifyVertices returned
    indexArrays,        \* the index arrays ExportGeometry has written
    peer,               \* a second invocation that is not running now: its
                        \* mesh, its output sequences and its locals
    node,               \* the exported object: its active_shape_key_index and
                        \* show_only_shape_key, the values of the key blocks
                        \* of its mesh, and whether it has an armature
    saved,              \* ExportGeometry's activeShapeKeyIndex,
                        \* showOnlyShapeKey, currentMorphValue, shapeKeys, m
    morphArrays,        \* the morph target arrays ExportGeometry has written
    skinArrays,         \* the bone influence arrays ExportSkin has written
    entered             \* the node as it was when ExportGeometry was entered

vars ==
    <<mesh, materialTable, exportVertexArray, faceIndex, vertexIndex, tri,
      evIndex, pc, bucketCount, hashTable, unifiedVertexArray, indexTable, i,
      call, firstResult, indexArrays, peer, node, saved, morphArrays,
      skinArrays, entered>>

deindexVars == <<materialTable, exportVertexArray, faceIndex, vertexIndex, tri, evIndex>>
unifyVars == <<bucketCount, hashTable, unifiedVertexArray, indexTable, i, call, firstResult>>
morphVars == <<node, saved, morphArrays, skinArrays, entered>>

\* An object without shape keys and without an armature.
PlainNode ==
    [active_shape_key_index |-> 0, show_only_shape_key |-> FALSE,
     key_blocks |-> <<>>, armature |-> FALSE]

\* ExportGeometry's morph locals before it has assigned them.
NoSaved ==
    [activeShapeKeyIndex |-> 0, showOnlyShapeKey |-> FALSE,
     currentMorphValue |-> <<>>, shapeKeys |-> FALSE, m |-> 0]

\* The exported object has no shape keys and no armature, and nothing of
\* morph targets or skin has been written.
NoMorphState ==
    /\ node = PlainNode
    /\ saved = NoSaved
    /\ morphArrays = <<>>
    /\ skinArrays = <<>>
    /\ entered = PlainNode

\* There is no second invocation: ExportObjects exports one geometry after
\* the other.
NoPeer == [pc |-> "none"]

\* ExportGeometry up to its call of DeindexMesh: materialTable = [], and
\* DeindexMesh's exportVertexArray = [], faceIndex = 0.
Init ==
    /\ \E base \in SeqUpTo(FaceChoices, MaxFaces),
          nColor \in ColorLayerCounts, nUV \in UVLayerCounts :
         \E T \in {Len(base)} \cup (IF Len(base) > 0 THEN {BigFaces} ELSE {}) :
            mesh = MakeMesh(base, T, nColor, nUV)
    /\ materialTable = <<>>
    /\ exportVertexArray = <<>>
    /\ faceIndex = 0
    /\ vertexIndex = -1
    /\ tri = 0
    /\ evIndex = 0
    /\ pc = "faces"
    /\ bucketCount = 0
    /\ hashTable = <<>>
    /\ unifiedVertexArray = <<>>
    /\ indexTable = <<>>
    /\ i = 0
    /\ call = 0
    /\ firstResult = <<>>
    /\ indexArrays = <<>>
    /\ peer = NoPeer
    /\ NoMorphState

\* ------------------------------------------------------------ DeindexMesh

\* The corner written for every corner from the face's first vertex id.
DeindexCornerFirstVertex(m, face, c, fIndex) ==
    LET k == face.vertices[1]
        v == m.vertices[k + 1]
        l == m.loops[face.loop_indices[c] + 1]
    IN  [NewExportVertex EXCEPT
            !.vertexIndex = k,
            !.faceIndex = fIndex,
            !.position = v.co,
            !.normal = IF face.use_smooth THEN v.normal ELSE face.normal,
            !.tangent = l.tangent]

\* The corner hashed as soon as it is created, before its color and
\* texcoords are written.
DeindexCornerHashed(m, face, c, fIndex) ==
    LET k == face.vertices[c]
        v == m.vertices[k + 1]
        l == m.loops[face.loop_indices[c] + 1]
        ev == [NewExportVertex EXCEPT
                  !.vertexIndex = k,
                  !.faceIndex = fIndex,
                  !.position = v.co,
                  !.normal = IF face.use_smooth THEN v.normal ELSE face.normal,
                  !.tangent = l.tangent]
    IN  [ev EXCEPT !.hash = Hash(ev)]

\* The corner written with the normal of its face whatever the shading of
\* the face is.
DeindexCornerFaceNormal(m, face, c, fIndex) ==
    LET k == face.vertices[c]
        v == m.vertices[k + 1]
        l == m.loops[face.loop_indices[c] + 1]
    IN  [NewExportVertex EXCEPT
            !.vertexIndex = k,
            !.faceIndex = fIndex,
            !.position = v.co,
            !.normal = face.normal,
            !.tangent = l.tangent]

\* The corner written with the normal of its vertex whatever the shading of
\* the face is.
DeindexCornerVertexNormal(m, face, c, fIndex) ==
    LET k == face.vertices[c]
        v == m.vertices[k + 1]
        l == m.loops[face.loop_indices[c] + 1]
    IN  [NewExportVertex EXCEPT
            !.vertexIndex = k,
            !.faceIndex = fIndex,
            !.position = v.co,
            !.normal = v.normal,
            !.tangent = l.tangent]

\* The ExportVertex DeindexMesh creates for corner c (1..3) of a face.
DeindexCorner(m, face, c, fIndex) ==
    LET k == face.vertices[c]
        v == m.vertices[k + 1]
        l == m.loops[face.loop_indices[c] + 1]
    IN  [NewExportVertex EXCEPT
            !.vertexIndex = k,
            !.faceIndex = fIndex,
            !.position = v.co,
            !.normal = IF face.use_smooth THEN v.normal ELSE face.normal,
            !.tangent = l.tangent]

\* A pass of the face loop that records the material slot of the mesh's
\* first face for every face.
DeindexFaceFirstMaterial ==
    /\ pc = "faces"
    /\ faceIndex < Len(mesh.polygons)
    /\ LET face == mesh.polygons[faceIndex + 1]
       IN  /\ Len(face.vertices) = 3
           /\ exportVertexArray' = exportVertexArray \o
                 << DeindexCorner(mesh, face, 1, faceIndex),
                    DeindexCorner(mesh, face, 2, faceIndex),
                    DeindexCorner(mesh, face, 3, faceIndex) >>
           /\ materialTable' = Append(materialTable, mesh.polygons[1].material_index)
    /\ faceIndex' = faceIndex + 1
    /\ UNCHANGED <<morphVars, mesh, peer, indexArrays, vertexIndex, tri, evIndex, pc>>
    /\ UNCHANGED unifyVars

\* A pass of the face loop without the assertion: the first three vertices
\* of any face are taken.
DeindexFaceNoAssert ==
    /\ pc = "faces"
    /\ faceIndex < Len(mesh.polygons)
    /\ LET face == mesh.polygons[faceIndex + 1]
       IN  /\ exportVertexArray' = exportVertexArray \o
                 << DeindexCorner(mesh, face, 1, faceIndex),
                    DeindexCorner(mesh, face, 2, faceIndex),
                    DeindexCorner(mesh, face, 3, faceIndex) >>
           /\ materialTable' = Append(materialTable, face.material_index)
    /\ faceIndex' = faceIndex + 1
    /\ UNCHANGED <<morphVars, mesh, peer, indexArrays, vertexIndex, tri, evIndex, pc>>
    /\ UNCHANGED unifyVars

\* One pass of the loop over mesh.polygons.
DeindexFace ==
    /\ pc = "faces"
    /\ faceIndex < Len(mesh.polygons)
    /\ LET face == mesh.polygons[faceIndex + 1]
       IN  /\ Len(face.vertices) = 3
           /\ exportVertexArray' = exportVertexArray \o
                 << DeindexCorner(mesh, face, 1, faceIndex),
                    DeindexCorner(mesh, face, 2, faceIndex),
                    DeindexCorner(mesh, face, 3, faceIndex) >>
           /\ materialTable' = Append(materialTable, face.material_index)
    /\ faceIndex' = faceIndex + 1
    /\ UNCHANGED <<morphVars, mesh, peer, indexArrays, vertexIndex, tri, evIndex, pc>>
    /\ UNCHANGED unifyVars

\* The assertion of the face loop fails: the face does not have exactly 3
\* vertices.  The AssertionError ends DeindexMesh and ExportGeometry; nothing
\* is appended for the face.
DeindexFaceAssert ==
    /\ pc = "faces"
    /\ faceIndex < Len(mesh.polygons)
    /\ Len(mesh.polygons[faceIndex + 1].vertices) # 3
    /\ pc' = "failed"
    /\ UNCHANGED <<morphVars, mesh, peer, indexArrays, materialTable, exportVertexArray, faceIndex, vertexIndex,
                   tri, evIndex>>
    /\ UNCHANGED unifyVars

\* The face loop is over: colorCount is read and, with a color layer, the
\* counters are reset.
DeindexColorSetup ==
    /\ pc = "faces"
    /\ faceIndex = Len(mesh.polygons)
    /\ pc' = "colors"
    /\ IF Len(mesh.vertex_colors) > 0
       THEN vertexIndex' = 0 /\ faceIndex' = 0
       ELSE UNCHANGED <<vertexIndex, faceIndex>>
    /\ UNCHANGED <<morphVars, mesh, peer, indexArrays, materialTable, exportVertexArray, tri, evIndex>>
    /\ UNCHANGED unifyVars

\* A pass of the color loop that gives all three corners the first color.
DeindexColorFirstColor ==
    /\ pc = "colors"
    /\ Len(mesh.vertex_colors) > 0
    /\ faceIndex < Len(mesh.loop_triangles)
    /\ LET cf == mesh.vertex_colors[1].data[faceIndex + 1]
       IN  exportVertexArray' = [exportVertexArray EXCEPT
               ![vertexIndex + 1].color = cf.color1,
               ![vertexIndex + 2].color = cf.color1,
               ![vertexIndex + 3].color = cf.color1]
    /\ vertexIndex' = vertexIndex + 3
    /\ faceIndex' = faceIndex + 1
    /\ UNCHANGED <<morphVars, mesh, peer, indexArrays, materialTable, tri, evIndex, pc>>
    /\ UNCHANGED unifyVars

\* One pass of the color loop over mesh.loop_triangles.
DeindexColor ==
    /\ pc = "colors"
    /\ Len(mesh.vertex_colors) > 0
    /\ faceIndex < Len(mesh.loop_triangles)
    /\ LET cf == mesh.vertex_colors[1].data[faceIndex + 1]
       IN  exportVertexArray' = [exportVertexArray EXCEPT
               ![vertexIndex + 1].color = cf.color1,
               ![vertexIndex + 2].color = cf.color2,
               ![vertexIndex + 3].color = cf.color3]
    /\ vertexIndex' = vertexIndex + 3
    /\ faceIndex' = faceIndex + 1
    /\ UNCHANGED <<morphVars, mesh, peer, indexArrays, materialTable, tri, evIndex, pc>>
    /\ UNCHANGED unifyVars

\* The color part is over: texcoordCount is read and, with a UV layer,
\* vertexIndex is reset.
DeindexTexcoordSetup ==
    /\ pc = "colors"
    /\ Len(mesh.vertex_colors) = 0 \/ faceIndex = Len(mesh.loop_triangles)
    /\ pc' = "texcoords"
    /\ tri' = 0
    /\ IF Len(mesh.uv_layers) > 0
       THEN vertexIndex' = 0
       ELSE UNCHANGED vertexIndex
    /\ UNCHANGED <<morphVars, mesh, peer, indexArrays, materialTable, exportVertexArray, faceIndex, evIndex>>
    /\ UNCHANGED unifyVars

\* exportVertexArray after the inner loop over the loops of one loop triangle.
RECURSIVE DeindexTexcoordLoops(_, _, _, _, _)
DeindexTexcoordLoops(m, eva, loops, n, vIndex) ==
    IF n > Len(loops) THEN eva
    ELSE LET loop_index == loops[n]
             uvA == m.uv_layers[1].data[loop_index + 1].uv
             withA == [eva EXCEPT ![vIndex + 1].texcoord0 = uvA]
             withB == IF Len(m.uv_layers) > 1
                      THEN [withA EXCEPT ![vIndex + 1].texcoord1 =
                                m.uv_layers[2].data[loop_index + 1].uv]
                      ELSE withA
         IN  DeindexTexcoordLoops(m, withB, loops, n + 1, vIndex + 1)

\* One pass of the texcoord loop over mesh.loop_triangles.
DeindexTexcoord ==
    /\ pc = "texcoords"
    /\ Len(mesh.uv_layers) > 0
    /\ tri < Len(mesh.loop_triangles)
    /\ LET loops == mesh.loop_triangles[tri + 1].loops
       IN  /\ Len(loops) = 3
           /\ exportVertexArray' =
                 DeindexTexcoordLoops(mesh, exportVertexArray, loops, 1, vertexIndex)
           /\ vertexIndex' = vertexIndex + Len(loops)
    /\ tri' = tri + 1
    /\ UNCHANGED <<morphVars, mesh, peer, indexArrays, materialTable, faceIndex, evIndex, pc>>
    /\ UNCHANGED unifyVars

\* The texcoord part is over: the hashing loop starts.
DeindexHashSetup ==
    /\ pc = "texcoords"
    /\ Len(mesh.uv_layers) = 0 \/ tri = Len(mesh.loop_triangles)
    /\ pc' = "hash"
    /\ evIndex' = 0
    /\ UNCHANGED <<morphVars, mesh, peer, indexArrays, materialTable, exportVertexArray, faceIndex, vertexIndex, tri>>
    /\ UNCHANGED unifyVars

\* One pass of the hashing loop: ev.Hash().
DeindexHash ==
    /\ pc = "hash"
    /\ evIndex < Len(exportVertexArray)
    /\ exportVertexArray' = [exportVertexArray EXCEPT
           ![evIndex + 1].hash = Hash(exportVertexArray[evIndex + 1])]
    /\ evIndex' = evIndex + 1
    /\ UNCHANGED <<morphVars, mesh, peer, indexArrays, materialTable, faceIndex, vertexIndex, tri, pc>>
    /\ UNCHANGED unifyVars

\* DeindexMesh returns exportVertexArray; ExportGeometry sets indexTable = []
\* and calls UnifyVertices.
DeindexReturn ==
    /\ pc = "hash"
    /\ evIndex = Len(exportVertexArray)
    /\ pc' = "unify_begin"
    /\ indexTable' = <<>>
    /\ UNCHANGED <<morphVars, mesh, peer, indexArrays, bucketCount, hashTable, unifiedVertexArray, i, call, firstResult>>
    /\ UNCHANGED deindexVars

\* ---------------------------------------------------------- UnifyVertices

\* FindExportVertex that gives up after the first entry of the bucket.
FindExportVertexFirstOnly(bucket, eva, vertex) ==
    IF bucket = <<>> THEN -1
    ELSE IF ExportVertexEq(eva[Head(bucket) + 1], vertex) THEN Head(bucket)
    ELSE -1

\* FindExportVertex: the first index of the bucket whose vertex equals
\* `vertex`, or -1.
RECURSIVE FindExportVertex(_, _, _)
FindExportVertex(bucket, eva, vertex) ==
    IF bucket = <<>> THEN -1
    ELSE LET index == Head(bucket)
         IN  IF ExportVertexEq(eva[index + 1], vertex) THEN index
             ELSE FindExportVertex(Tail(bucket), eva, vertex)

\* The loop that rounds bucketCount down to a power of two: each pass clears
\* the lowest set bit, until one bit is left.
RECURSIVE RoundDownPowerOfTwo(_)
RoundDownPowerOfTwo(bc) ==
    LET count == BitAnd(bc, bc - 1)
    IN  IF count = 0 THEN bc ELSE RoundDownPowerOfTwo(count)

\* bucketCount without the floor of one bucket.
BucketCountNoFloor(n) ==
    LET bc == n \div 8
    IN  IF bc > 1 THEN RoundDownPowerOfTwo(bc) ELSE bc

\* bucketCount as UnifyVertices computes it for n expanded vertices.
BucketCountFor(n) ==
    LET bc == n \div 8
    IN  IF bc > 1 THEN RoundDownPowerOfTwo(bc) ELSE 1

\* bucket = ev.hash & (bucketCount - 1)
BucketOf(ev, bc) == BigAndSmall(ev.hash, bc - 1)

\* The entry recorded for a duplicate when the expanded index of its match
\* is stored instead of the match's unique-sequence index.
IndexEntryExpanded(index, table, unified) ==
    IF index < 0 THEN Len(unified) ELSE index

\* The entry recorded when the new vertex is appended before its index is
\* taken.
IndexEntryAfterAppend(index, table, unified) ==
    IF index < 0 THEN Len(unified) + 1 ELSE table[index + 1]

\* The entry UnifyVertices appends to indexTable, given FindExportVertex's
\* answer.
IndexEntry(index, table, unified) ==
    IF index < 0 THEN Len(unified) ELSE table[index + 1]

\* The start of UnifyVertices with a unique sequence that outlives the call
\* (a list shared between calls): only the hash table is fresh.
UnifyBeginKeepUnified ==
    /\ pc = "unify_begin"
    /\ bucketCount' = BucketCountFor(Len(exportVertexArray))
    /\ hashTable' = [b \in 1..bucketCount' |-> <<>>]
    /\ UNCHANGED unifiedVertexArray
    /\ i' = 0
    /\ pc' = "unify"
    /\ UNCHANGED <<morphVars, mesh, peer, indexArrays, indexTable, call, firstResult>>
    /\ UNCHANGED deindexVars

\* The start of UnifyVertices: bucket sizing, the empty hash table and the
\* empty unique sequence.
UnifyBegin ==
    /\ pc = "unify_begin"
    /\ bucketCount' = BucketCountFor(Len(exportVertexArray))
    /\ hashTable' = [b \in 1..bucketCount' |-> <<>>]
    /\ unifiedVertexArray' = <<>>
    /\ i' = 0
    /\ pc' = "unify"
    /\ UNCHANGED <<morphVars, mesh, peer, indexArrays, indexTable, call, firstResult>>
    /\ UNCHANGED deindexVars

\* A pass of the main loop that records nothing for a duplicate.
UnifyStepSkipDuplicate ==
    /\ pc = "unify"
    /\ i < Len(exportVertexArray)
    /\ LET ev == exportVertexArray[i + 1]
           bucket == BucketOf(ev, bucketCount)
           index == FindExportVertex(hashTable[bucket + 1], exportVertexArray, ev)
       IN  IF index < 0
           THEN /\ indexTable' = Append(indexTable, Len(unifiedVertexArray))
                /\ unifiedVertexArray' = Append(unifiedVertexArray, ev)
                /\ hashTable' = [hashTable EXCEPT ![bucket + 1] = Append(@, i)]
           ELSE UNCHANGED <<indexTable, unifiedVertexArray, hashTable>>
    /\ i' = i + 1
    /\ UNCHANGED <<morphVars, mesh, peer, indexArrays, pc, bucketCount, call, firstResult>>
    /\ UNCHANGED deindexVars

\* A pass of the main loop that enters every vertex in its bucket, duplicates
\* too.
UnifyStepBucketAll ==
    /\ pc = "unify"
    /\ i < Len(exportVertexArray)
    /\ LET ev == exportVertexArray[i + 1]
           bucket == BucketOf(ev, bucketCount)
           index == FindExportVertex(hashTable[bucket + 1], exportVertexArray, ev)
       IN  /\ indexTable' =
                 Append(indexTable, IndexEntry(index, indexTable, unifiedVertexArray))
           /\ hashTable' = [hashTable EXCEPT ![bucket + 1] = Append(@, i)]
           /\ IF index < 0
              THEN unifiedVertexArray' = Append(unifiedVertexArray, ev)
              ELSE UNCHANGED unifiedVertexArray
    /\ i' = i + 1
    /\ UNCHANGED <<morphVars, mesh, peer, indexArrays, pc, bucketCount, call, firstResult>>
    /\ UNCHANGED deindexVars

\* A pass of the main loop that notes in the expanded vertex which position
\* it was matched with.
UnifyStepMarkInput ==
    /\ pc = "unify"
    /\ i < Len(exportVertexArray)
    /\ LET ev == exportVertexArray[i + 1]
           bucket == BucketOf(ev, bucketCount)
           index == FindExportVertex(hashTable[bucket + 1], exportVertexArray, ev)
       IN  /\ indexTable' =
                 Append(indexTable, IndexEntry(index, indexTable, unifiedVertexArray))
           /\ exportVertexArray' =
                 [exportVertexArray EXCEPT ![i + 1].vertexIndex = index]
           /\ IF index < 0
              THEN /\ unifiedVertexArray' = Append(unifiedVertexArray, ev)
                   /\ hashTable' = [hashTable EXCEPT ![bucket + 1] = Append(@, i)]
              ELSE UNCHANGED <<unifiedVertexArray, hashTable>>
    /\ i' = i + 1
    /\ UNCHANGED <<morphVars, mesh, peer, indexArrays, pc, bucketCount, call, firstResult>>
    /\ UNCHANGED <<materialTable, faceIndex, vertexIndex, tri, evIndex>>

\* One pass of the main loop of UnifyVertices.
UnifyStep ==
    /\ pc = "unify"
    /\ i < Len(exportVertexArray)
    /\ LET ev == exportVertexArray[i + 1]
           bucket == BucketOf(ev, bucketCount)
           index == FindExportVertex(hashTable[bucket + 1], exportVertexArray, ev)
       IN  /\ indexTable' =
                 Append(indexTable, IndexEntry(index, indexTable, unifiedVertexArray))
           /\ IF index < 0
              THEN /\ unifiedVertexArray' = Append(unifiedVertexArray, ev)
                   /\ hashTable' = [hashTable EXCEPT ![bucket + 1] = Append(@, i)]
              ELSE UNCHANGED <<unifiedVertexArray, hashTable>>
    /\ i' = i + 1
    /\ UNCHANGED <<morphVars, mesh, peer, indexArrays, pc, bucketCount, call, firstResult>>
    /\ UNCHANGED deindexVars

\* UnifyVertices returns unifiedVertexArray.
UnifyReturn ==
    /\ pc = "unify"
    /\ i = Len(exportVertexArray)
    /\ pc' = "done"
    /\ call' = call + 1
    /\ UNCHANGED <<morphVars, mesh, peer, indexArrays, bucketCount, hashTable, unifiedVertexArray, indexTable, i, firstResult>>
    /\ UNCHANGED deindexVars

\* The same expanded sequence is unified again with a fresh indexTable; what
\* the call before returned is kept for comparison.
UnifyAgain ==
    /\ pc = "done"
    /\ call < MaxCalls
    /\ firstResult' = <<unifiedVertexArray, indexTable>>
    /\ indexTable' = <<>>
    /\ pc' = "unify_begin"
    /\ UNCHANGED <<morphVars, mesh, peer, indexArrays, bucketCount, hashTable, unifiedVertexArray, i, call>>
    /\ UNCHANGED deindexVars

\* ------------------------------------------- ExportGeometry: index arrays

\* maxMaterialIndex after the passes n, n + 1, ... of its loop.
RECURSIVE MaxMaterialIndex(_, _, _)
MaxMaterialIndex(table, n, maxMaterialIndex) ==
    IF n >= Len(table) THEN maxMaterialIndex
    ELSE MaxMaterialIndex(table, n + 1,
             IF table[n + 1] > maxMaterialIndex THEN table[n + 1]
             ELSE maxMaterialIndex)

\* materialTriangleCount[m] after the counting loop.
MaterialTriangleCount(table, m) ==
    Cardinality({n \in DOMAIN table : table[n] = m})

\* materialIndexTable of slot m, built by the passes n, n + 1, ... over
\* materialTable.
RECURSIVE MaterialIndexTable(_, _, _, _)
MaterialIndexTable(table, indices, m, n) ==
    IF n >= Len(table) THEN <<>>
    ELSE LET k == n * 3
         IN  (IF table[n + 1] = m
              THEN <<indices[k + 1], indices[k + 2], indices[k + 3]>>
              ELSE <<>>)
             \o MaterialIndexTable(table, indices, m, n + 1)

\* The three numbers written with the triangle index taken as the position.
WriteTriangleUnscaled(triangleIndex, indices) ==
    LET n == triangleIndex
    IN  <<indices[n + 1], indices[n + 2], indices[n + 3]>>

\* The three numbers WriteTriangle writes.
WriteTriangle(triangleIndex, indices) ==
    LET n == triangleIndex * 3
    IN  <<indices[n + 1], indices[n + 2], indices[n + 3]>>

\* The numbers WriteTriangleArray writes for triangles n, n + 1, ...,
\* count - 1.
RECURSIVE WriteTriangleArray(_, _, _)
WriteTriangleArray(count, indices, n) ==
    IF n >= count THEN <<>>
    ELSE WriteTriangle(n, indices) \o WriteTriangleArray(count, indices, n + 1)

\* The index arrays written for the slots m, m + 1, ..., maxMaterialIndex:
\* the triangle count, the slot and the data of each slot that has a
\* triangle.
RECURSIVE IndexArraysFrom(_, _, _, _)
IndexArraysFrom(table, indices, m, maxMaterialIndex) ==
    IF m > maxMaterialIndex THEN <<>>
    ELSE (IF MaterialTriangleCount(table, m) # 0
          THEN << [count |-> MaterialTriangleCount(table, m),
                   material_slot |-> m,
                   data |-> WriteTriangleArray(MaterialTriangleCount(table, m),
                                MaterialIndexTable(table, indices, m, 0), 0)] >>
          ELSE <<>>)
         \o IndexArraysFrom(table, indices, m + 1, maxMaterialIndex)

\* ExportGeometry writes the index arrays of the mesh.
WriteIndexArrays ==
    /\ pc = "done"
    /\ indexArrays' = IndexArraysFrom(materialTable, indexTable, 0,
                          MaxMaterialIndex(materialTable, 0, 0))
    /\ pc' = "written"
    /\ UNCHANGED <<morphVars, mesh, peer, bucketCount, hashTable, unifiedVertexArray,
                   indexTable, i, call, firstResult>>
    /\ UNCHANGED deindexVars

Next ==
    \/ DeindexFace
    \/ DeindexFaceAssert
    \/ DeindexColorSetup
    \/ DeindexColor
    \/ DeindexTexcoordSetup
    \/ DeindexTexcoord
    \/ DeindexHashSetup
    \/ DeindexHash
    \/ DeindexReturn
    \/ UnifyBegin
    \/ UnifyStep
    \/ UnifyReturn
    \/ UnifyAgain
    \/ WriteIndexArrays

Spec == Init /\ [][Next]_vars

\* ------------------------------------- UnifyVertices on a given sequence

\* Hashed expanded vertices with positive, negative, small and large hashes;
\* the first and the last differ in position and have one hash.
SizingVertices ==
    LET ev(position, texcoord1) ==
            [NewExportVertex EXCEPT
                !.vertexIndex = 0, !.faceIndex = 0,
                !.position = position, !.normal = <<0, 0, 1>>,
                !.tangent = <<1, 0, 0>>, !.texcoord1 = texcoord1]
        hashed(e) == [e EXCEPT !.hash = Hash(e)]
    IN  << hashed(ev(<<1, 0, 0>>, <<0, 0>>)),
           hashed(ev(<<-1, 0, 0>>, <<0, 1>>)),
           hashed(ev(<<0, 0, 0>>, <<0, 2>>)),
           hashed(ev(<<-3, 5, 0>>, <<0, -1>>)),
           hashed(ev(<<0, 0, -7>>, <<0, 5>>)),
           hashed(ev(<<2, 0, 0>>, <<0, -5>>)),
           hashed(ev(<<0, 21737, 0>>, <<0, 0>>)) >>

\* The strides with which the vertices above are laid out in a sequence.
SizingStrides == {1, 2}

\* UnifyVertices is called with an expanded sequence of any length up to
\* MaxLength and an empty indexTable.
InitSizing ==
    /\ \E n \in 0..MaxLength, stride \in SizingStrides :
          exportVertexArray =
              [k \in 1..n |->
                  SizingVertices[(((k - 1) * stride) % Len(SizingVertices)) + 1]]
    /\ mesh = MakeMesh(<<>>, 0, 0, 0)
    /\ materialTable = <<>>
    /\ faceIndex = 0
    /\ vertexIndex = -1
    /\ tri = 0
    /\ evIndex = 0
    /\ pc = "size"
    /\ bucketCount = 0
    /\ hashTable = <<>>
    /\ unifiedVertexArray = <<>>
    /\ indexTable = <<>>
    /\ i = 0
    /\ call = 0
    /\ firstResult = <<>>
    /\ indexArrays = <<>>
    /\ peer = NoPeer
    /\ NoMorphState

\* bucketCount = len(exportVertexArray) >> 3, and the else branch that sets
\* it to 1.
UnifySize ==
    /\ pc = "size"
    /\ LET shifted == Len(exportVertexArray) \div 8
       IN  IF shifted > 1
           THEN bucketCount' = shifted /\ pc' = "round"
           ELSE bucketCount' = 1 /\ pc' = "alloc"
    /\ UNCHANGED <<morphVars, mesh, peer, indexArrays, hashTable, unifiedVertexArray,
                   indexTable, i, call, firstResult>>
    /\ UNCHANGED deindexVars

\* A rounding pass that is left only when bucketCount itself is 0.
UnifyRoundBreakOnZero ==
    /\ pc = "round"
    /\ LET count == BitAnd(bucketCount, bucketCount - 1)
       IN  IF bucketCount = 0
           THEN pc' = "alloc" /\ UNCHANGED bucketCount
           ELSE bucketCount' = count /\ UNCHANGED pc
    /\ UNCHANGED <<morphVars, mesh, peer, indexArrays, hashTable, unifiedVertexArray,
                   indexTable, i, call, firstResult>>
    /\ UNCHANGED deindexVars

\* A single rounding pass instead of a loop.
UnifyRoundOnce ==
    /\ pc = "round"
    /\ LET count == BitAnd(bucketCount, bucketCount - 1)
       IN  /\ bucketCount' = IF count = 0 THEN bucketCount ELSE count
           /\ pc' = "alloc"
    /\ UNCHANGED <<morphVars, mesh, peer, indexArrays, hashTable, unifiedVertexArray,
                   indexTable, i, call, firstResult>>
    /\ UNCHANGED deindexVars

\* One pass of the loop that rounds bucketCount down to a power of two.
UnifyRound ==
    /\ pc = "round"
    /\ LET count == BitAnd(bucketCount, bucketCount - 1)
       IN  IF count = 0
           THEN pc' = "alloc" /\ UNCHANGED bucketCount
           ELSE bucketCount' = count /\ UNCHANGED pc
    /\ UNCHANGED <<morphVars, mesh, peer, indexArrays, hashTable, unifiedVertexArray,
                   indexTable, i, call, firstResult>>
    /\ UNCHANGED deindexVars

\* hashTable = [[] for i in range(bucketCount)], unifiedVertexArray = [].
UnifyAlloc ==
    /\ pc = "alloc"
    /\ hashTable' = [b \in 1..bucketCount |-> <<>>]
    /\ unifiedVertexArray' = <<>>
    /\ i' = 0
    /\ pc' = "unify"
    /\ UNCHANGED <<morphVars, mesh, peer, indexArrays, bucketCount, indexTable, call,
                   firstResult>>
    /\ UNCHANGED deindexVars

NextSizing ==
    \/ UnifySize
    \/ UnifyRound
    \/ UnifyAlloc
    \/ UnifyStep
    \/ UnifyReturn

\* The call runs on without being suspended for ever.
SpecSizing == InitSizing /\ [][NextSizing]_vars /\ WF_vars(NextSizing)

\* ------------------------------------------------------ two invocations

\* The meshes given to two invocations that run interleaved: one or two
\* faces, a color layer and two UV layers.
ParMeshes ==
    { MakeMesh(base, Len(base), 1, 2) :
        base \in {<<f>> : f \in FaceChoices} \cup
                 {<<f, g>> : f \in FaceChoices, g \in FaceChoices} }

\* What belongs to the running invocation: its mesh, the output sequences
\* its caller made for it, and the locals of DeindexMesh and UnifyVertices.
Current ==
    [mesh |-> mesh, materialTable |-> materialTable,
     exportVertexArray |-> exportVertexArray, faceIndex |-> faceIndex,
     vertexIndex |-> vertexIndex, tri |-> tri, evIndex |-> evIndex, pc |-> pc,
     bucketCount |-> bucketCount, hashTable |-> hashTable,
     unifiedVertexArray |-> unifiedVertexArray, indexTable |-> indexTable,
     i |-> i, call |-> call]

\* Two invocations on different meshes, each with its own empty output
\* sequences, neither started.  The larger mesh is the one scheduled first;
\* Switch can be the first step.
InitPar ==
    /\ \E m1 \in ParMeshes, m2 \in ParMeshes :
          /\ Len(m1.polygons) > Len(m2.polygons)
          /\ mesh = m1
          /\ peer = [mesh |-> m2, materialTable |-> <<>>,
                     exportVertexArray |-> <<>>, faceIndex |-> 0,
                     vertexIndex |-> -1, tri |-> 0, evIndex |-> 0, pc |-> "faces",
                     bucketCount |-> 0, hashTable |-> <<>>,
                     unifiedVertexArray |-> <<>>, indexTable |-> <<>>,
                     i |-> 0, call |-> 0]
    /\ materialTable = <<>>
    /\ exportVertexArray = <<>>
    /\ faceIndex = 0
    /\ vertexIndex = -1
    /\ tri = 0
    /\ evIndex = 0
    /\ pc = "faces"
    /\ bucketCount = 0
    /\ hashTable = <<>>
    /\ unifiedVertexArray = <<>>
    /\ indexTable = <<>>
    /\ i = 0
    /\ call = 0
    /\ firstResult = <<>>
    /\ NoMorphState
    /\ indexArrays = <<>>

\* A switch between invocations that leaves one unique sequence in use by
\* both.
SwitchSharedUnified ==
    /\ peer.pc # "none"
    /\ peer' = Current
    /\ mesh' = peer.mesh
    /\ materialTable' = peer.materialTable
    /\ exportVertexArray' = peer.exportVertexArray
    /\ faceIndex' = peer.faceIndex
    /\ vertexIndex' = peer.vertexIndex
    /\ tri' = peer.tri
    /\ evIndex' = peer.evIndex
    /\ pc' = peer.pc
    /\ bucketCount' = peer.bucketCount
    /\ hashTable' = peer.hashTable
    /\ indexTable' = peer.indexTable
    /\ i' = peer.i
    /\ call' = peer.call
    /\ UNCHANGED <<morphVars, unifiedVertexArray, firstResult, indexArrays>>

\* The running invocation is suspended between two of its steps and the
\* other one goes on where it stood.  Everything DeindexMesh and
\* UnifyVertices read or write is a parameter or a local, so all of it goes
\* with its invocation.
Switch ==
    /\ peer.pc # "none"
    /\ peer' = Current
    /\ mesh' = peer.mesh
    /\ materialTable' = peer.materialTable
    /\ exportVertexArray' = peer.exportVertexArray
    /\ faceIndex' = peer.faceIndex
    /\ vertexIndex' = peer.vertexIndex
    /\ tri' = peer.tri
    /\ evIndex' = peer.evIndex
    /\ pc' = peer.pc
    /\ bucketCount' = peer.bucketCount
    /\ hashTable' = peer.hashTable
    /\ unifiedVertexArray' = peer.unifiedVertexArray
    /\ indexTable' = peer.indexTable
    /\ i' = peer.i
    /\ call' = peer.call
    /\ UNCHANGED <<morphVars, firstResult, indexArrays>>

NextPar ==
    \/ DeindexFace
    \/ DeindexFaceAssert
    \/ DeindexColorSetup
    \/ DeindexColor
    \/ DeindexTexcoordSetup
    \/ DeindexTexcoord
    \/ DeindexHashSetup
    \/ DeindexHash
    \/ DeindexReturn
    \/ UnifyBegin
    \/ UnifyStep
    \/ UnifyReturn
    \/ Switch

SpecPar == InitPar /\ [][NextPar]_vars

\* ------------------------------------- ExportGeometry: morph targets, skin

\* The largest number of key blocks of an exported mesh.
MaxKeyBlocks == 3

\* Values of key blocks at entry, in tenths: 0.3 and 1.0.  The values the
\* export writes are 0.0 (written 0) and 1.0 (written 10).
MorphValues == {3, 10}

\* The key blocks a mesh can have at entry: none (the mesh has no shape
\* keys), one, or more.
KeyBlockChoices == UNION {[1..n -> MorphValues] : n \in 0..MaxKeyBlocks}

\* The objects ExportGeometry is entered with.
NodeChoices ==
    UNION { { [active_shape_key_index |-> a, show_only_shape_key |-> s,
               key_blocks |-> kb, armature |-> arm] :
                a \in {0} \cup (IF Len(kb) > 0 THEN {Len(kb) - 1} ELSE {}),
                s \in BOOLEAN, arm \in BOOLEAN } :
            kb \in KeyBlockChoices }

\* The face of FaceChoices with the given vertex ids.
FaceOf(vs) == CHOOSE f \in FaceChoices : f.vertices = vs

\* The meshes exported with morph targets and skin: no face; one face with
\* corners at one location; two smooth faces with a corner at one location;
\* a flat face twice; a quad.
MorphMeshes ==
    { MakeMesh(base, Len(base), 1, 1) :
        base \in { <<>>,
                   <<FaceOf(<<0, 2, 0>>)>>,
                   <<FaceOf(<<0, 1, 5>>), FaceOf(<<2, 4, 3>>)>>,
                   <<FaceOf(<<3, 4, 5>>), FaceOf(<<3, 4, 5>>)>>,
                   <<FaceOf(<<0, 1, 5, 3>>)>> } }

\* GetShapeKeys gives the shape keys of a mesh only if there is more than
\* one key block.
GetShapeKeys(n) == Len(n.key_blocks) > 1

\* The mesh the host makes of the object while show_only_shape_key is set:
\* the shape key of active_shape_key_index alone, at full value.  Key 0 is
\* the basis; key b moves vertex k (counted from 0) by b * (k + 1) along z
\* and gives every vertex and triangle a normal of its own.
ToMesh(n) ==
    LET b == n.active_shape_key_index IN
    [vertices |->
        [k \in DOMAIN mesh.vertices |->
            IF b = 0 THEN mesh.vertices[k]
            ELSE [co |-> <<mesh.vertices[k].co[1], mesh.vertices[k].co[2],
                           mesh.vertices[k].co[3] + b * k>>,
                  normal |-> <<0, b, k>>]],
     loop_triangles |->
        [t \in DOMAIN mesh.polygons |->
            [use_smooth |-> mesh.polygons[t].use_smooth,
             normal |-> IF b = 0 THEN mesh.polygons[t].normal
                        ELSE <<b, t, 0>>]]]

\* WriteMorphPositionArray3D that writes the position of the vertex at the
\* place of the unique vertex.
WriteMorphPositionArrayByPlace(vertexArray, meshVertexArray) ==
    [k \in DOMAIN vertexArray |->
        meshVertexArray[((k - 1) % Len(meshVertexArray)) + 1].co]

\* WriteMorphPositionArray3D writes, for every vertex of vertexArray, the
\* position of the morph mesh's vertex of its vertexIndex.
WriteMorphPositionArray3D(vertexArray, meshVertexArray) ==
    [k \in DOMAIN vertexArray |->
        meshVertexArray[vertexArray[k].vertexIndex + 1].co]

\* WriteMorphNormalArray3D writes, for every vertex of vertexArray, the
\* normal of the morph mesh's vertex of its vertexIndex if the triangle of
\* its faceIndex is smooth, and the normal of that triangle if not.
WriteMorphNormalArray3D(vertexArray, meshVertexArray, tessFaceArray) ==
    [k \in DOMAIN vertexArray |->
        LET face == tessFaceArray[vertexArray[k].faceIndex + 1] IN
        IF face.use_smooth
        THEN meshVertexArray[vertexArray[k].vertexIndex + 1].normal
        ELSE face.normal]

\* The names of the object's vertex groups and of the armature's bones.
VertexGroupNames == <<"hip", "helper", "arm">>
BoneNames == <<"hip", "arm">>

\* The vertex groups of the vertices of the object's mesh: group index and
\* weight in tenths.
VertexGroups ==
    << << [group |-> 0, weight |-> 5], [group |-> 1, weight |-> 5] >>,
       << >>,
       << [group |-> 0, weight |-> 5], [group |-> 2, weight |-> 15] >>,
       << [group |-> 2, weight |-> 0] >>,
       << [group |-> 2, weight |-> 10] >>,
       << [group |-> 1, weight |-> 10] >> >>

\* ExportSkin's groupRemap: for every vertex group the index of the first
\* bone of its name, or -1.
GroupRemap ==
    [g \in DOMAIN VertexGroupNames |->
        IF \E b \in DOMAIN BoneNames : BoneNames[b] = VertexGroupNames[g]
        THEN (CHOOSE b \in DOMAIN BoneNames :
                 /\ BoneNames[b] = VertexGroupNames[g]
                 /\ \A c \in 1..(b - 1) : BoneNames[c] # VertexGroupNames[g]) - 1
        ELSE -1]

\* The influences ExportSkin keeps of the elements k, k + 1, ... of a
\* vertex's groups: those of a bone and of weight other than zero.
RECURSIVE Influences(_, _)
Influences(groups, k) ==
    IF k > Len(groups) THEN <<>>
    ELSE LET boneIndex == GroupRemap[groups[k].group + 1]
             boneWeight == groups[k].weight
         IN  (IF boneIndex >= 0 /\ boneWeight # 0
              THEN << [boneIndex |-> boneIndex, boneWeight |-> boneWeight] >>
              ELSE <<>>) \o Influences(groups, k + 1)

\* The sum of the weights of a sequence of influences.
RECURSIVE TotalWeight(_)
TotalWeight(infl) ==
    IF infl = <<>> THEN 0 ELSE Head(infl).boneWeight + TotalWeight(Tail(infl))

\* ExportSkin's loop over the vertices k, k + 1, ... of exportVertexArray:
\* the number of influences of each vertex, and their bones and weights,
\* taken from the mesh vertex of ev.vertexIndex.  A weight is written as
\* the pair of the weight and the total it is divided by.
RECURSIVE SkinArraysFrom(_, _, _)
SkinArraysFrom(vertexArray, meshVertexArray, k) ==
    IF k > Len(vertexArray) THEN
        [boneCountArray |-> <<>>, boneIndexArray |-> <<>>, boneWeightArray |-> <<>>]
    ELSE
        LET infl == Influences(meshVertexArray[vertexArray[k].vertexIndex + 1], 1)
            rest == SkinArraysFrom(vertexArray, meshVertexArray, k + 1)
        IN  [boneCountArray |-> <<Len(infl)>> \o rest.boneCountArray,
             boneIndexArray |->
                [j \in DOMAIN infl |-> infl[j].boneIndex] \o rest.boneIndexArray,
             boneWeightArray |->
                [j \in DOMAIN infl |->
                    <<infl[j].boneWeight, TotalWeight(infl)>>] \o rest.boneWeightArray]

\* ExportGeometry is entered with an object and the mesh made of it.
InitMorph ==
    /\ mesh \in MorphMeshes
    /\ node \in NodeChoices
    /\ entered = node
    /\ saved = NoSaved
    /\ morphArrays = <<>>
    /\ skinArrays = <<>>
    /\ materialTable = <<>>
    /\ exportVertexArray = <<>>
    /\ faceIndex = 0
    /\ vertexIndex = -1
    /\ tri = 0
    /\ evIndex = 0
    /\ pc = "enter"
    /\ bucketCount = 0
    /\ hashTable = <<>>
    /\ unifiedVertexArray = <<>>
    /\ indexTable = <<>>
    /\ i = 0
    /\ call = 0
    /\ firstResult = <<>>
    /\ indexArrays = <<>>
    /\ peer = NoPeer

\* ExportGeometry saves the morph state and, if the mesh has shape keys,
\* selects key 0, shows it alone, and sets every key block to 0.0 and then
\* block 0 to 1.0.
MorphSave ==
    /\ pc = "enter"
    /\ saved' = [activeShapeKeyIndex |-> node.active_shape_key_index,
                 showOnlyShapeKey |-> node.show_only_shape_key,
                 currentMorphValue |->
                    IF GetShapeKeys(node) THEN node.key_blocks ELSE <<>>,
                 shapeKeys |-> GetShapeKeys(node),
                 m |-> 0]
    /\ node' = IF GetShapeKeys(node)
               THEN [node EXCEPT
                       !.active_shape_key_index = 0,
                       !.show_only_shape_key = TRUE,
                       !.key_blocks = [k \in DOMAIN node.key_blocks |->
                                          IF k = 1 THEN 10 ELSE 0]]
               ELSE node
    /\ pc' = "faces"
    /\ UNCHANGED <<mesh, peer, indexArrays, morphArrays, skinArrays, entered>>
    /\ UNCHANGED deindexVars
    /\ UNCHANGED unifyVars

\* After the arrays of the mesh, ExportGeometry sets block 0 to 0.0 and
\* starts the loop over the morph targets.
MorphTargetsBegin ==
    /\ pc = "done"
    /\ node' = IF saved.shapeKeys
               THEN [node EXCEPT !.key_blocks[1] = 0]
               ELSE node
    /\ saved' = [saved EXCEPT !.m = 1]
    /\ pc' = "morphs"
    /\ UNCHANGED <<mesh, peer, indexArrays, morphArrays, skinArrays, entered>>
    /\ UNCHANGED deindexVars
    /\ UNCHANGED unifyVars

\* One pass of the loop over the morph targets: block m is set to 1.0 and
\* made the active one, the morph mesh is made, and its position and normal
\* arrays are written for the unique vertices.
MorphTarget ==
    /\ pc = "morphs"
    /\ saved.shapeKeys
    /\ saved.m < Len(saved.currentMorphValue)
    /\ node' = [node EXCEPT !.key_blocks[saved.m + 1] = 10,
                            !.active_shape_key_index = saved.m]
    /\ LET morphMesh == ToMesh(node') IN
         morphArrays' = Append(morphArrays,
            [morph |-> saved.m,
             position |-> WriteMorphPositionArray3D(unifiedVertexArray,
                              morphMesh.vertices),
             normal |-> WriteMorphNormalArray3D(unifiedVertexArray,
                              morphMesh.vertices, morphMesh.loop_triangles)])
    /\ saved' = [saved EXCEPT !.m = saved.m + 1]
    /\ UNCHANGED <<mesh, peer, indexArrays, skinArrays, entered, pc>>
    /\ UNCHANGED deindexVars
    /\ UNCHANGED unifyVars

\* After the morph targets ExportGeometry writes the index arrays and, if
\* the object has an armature, the skin.
ExportIndexAndSkin ==
    /\ pc = "morphs"
    /\ ~saved.shapeKeys \/ saved.m >= Len(saved.currentMorphValue)
    /\ indexArrays' = IndexArraysFrom(materialTable, indexTable, 0,
                          MaxMaterialIndex(materialTable, 0, 0))
    /\ skinArrays' = IF node.armature
                     THEN <<SkinArraysFrom(unifiedVertexArray, VertexGroups, 1)>>
                     ELSE <<>>
    /\ pc' = "skinned"
    /\ UNCHANGED <<mesh, peer, node, saved, morphArrays, entered>>
    /\ UNCHANGED deindexVars
    /\ UNCHANGED unifyVars

\* MorphRestore that leaves block 0 as the export set it.
MorphRestoreSkipBase ==
    /\ pc = "skinned"
    /\ node' = IF saved.shapeKeys
               THEN [node EXCEPT
                       !.active_shape_key_index = saved.activeShapeKeyIndex,
                       !.show_only_shape_key = saved.showOnlyShapeKey,
                       !.key_blocks = [k \in DOMAIN node.key_blocks |->
                                          IF k = 1 THEN node.key_blocks[k]
                                          ELSE saved.currentMorphValue[k]]]
               ELSE node
    /\ pc' = "exported"
    /\ UNCHANGED <<mesh, peer, indexArrays, saved, morphArrays, skinArrays, entered>>
    /\ UNCHANGED deindexVars
    /\ UNCHANGED unifyVars

\* ExportGeometry restores the morph state: the active index, the flag and
\* the value of every key block it saved.
MorphRestore ==
    /\ pc = "skinned"
    /\ node' = IF saved.shapeKeys
               THEN [node EXCEPT
                       !.active_shape_key_index = saved.activeShapeKeyIndex,
                       !.show_only_shape_key = saved.showOnlyShapeKey,
                       !.key_blocks = [k \in DOMAIN node.key_blocks |->
                                          IF k <= Len(saved.currentMorphValue)
                                          THEN saved.currentMorphValue[k]
                                          ELSE node.key_blocks[k]]]
               ELSE node
    /\ pc' = "exported"
    /\ UNCHANGED <<mesh, peer, indexArrays, saved, morphArrays, skinArrays, entered>>
    /\ UNCHANGED deindexVars
    /\ UNCHANGED unifyVars

NextMorph ==
    \/ MorphSave
    \/ DeindexFace
    \/ DeindexFaceAssert
    \/ DeindexColorSetup
    \/ DeindexColor
    \/ DeindexTexcoordSetup
    \/ DeindexTexcoord
    \/ DeindexHashSetup
    \/ DeindexHash
    \/ DeindexReturn
    \/ UnifyBegin
    \/ UnifyStep
    \/ UnifyReturn
    \/ MorphTargetsBegin
    \/ MorphTarget
    \/ ExportIndexAndSkin
    \/ MorphRestore

SpecMorph == InitMorph /\ [][NextMorph]_vars

\* ---------------------------------------------------------------- claims

\* Full attribute equality of two expanded vertices: position, normal,
\* tangent, color, texcoord0 and texcoord1.
AttrEq(a, b) ==
    /\ a.position = b.position
    /\ a.normal = b.normal
    /\ a.tangent = b.tangent
    /\ a.color = b.color
    /\ a.texcoord0 = b.texcoord0
    /\ a.texcoord1 = b.texcoord1

\* UnifyVertices is between two passes of its main loop, or has returned.
InUnify == pc \in {"unify", "done"}

\* The expanded vertices the main loop has processed are 1 .. i.
Processed == 1..i

\* Some processed vertex duplicates an earlier one.
SomeDuplicate ==
    \E a, b \in Processed :
        a < b /\ AttrEq(exportVertexArray[a], exportVertexArray[b])

\* Two processed vertices have the same hash and differ in an attribute.
SomeCollision ==
    \E a, b \in Processed :
        /\ exportVertexArray[a].hash = exportVertexArray[b].hash
        /\ ~AttrEq(exportVertexArray[a], exportVertexArray[b])

\* C1: after UnifyVertices has run on an empty indexTable (and after each
\* pass of its loop), for every processed position k the unique vertex at
\* indexTable[k] exists and equals the expanded vertex k in position, normal,
\* tangent, color, texcoord0 and texcoord1.
C1_Reconstruction ==
    InUnify =>
        \A k \in Processed :
            /\ k \in DOMAIN indexTable
            /\ indexTable[k] + 1 \in DOMAIN unifiedVertexArray
            /\ AttrEq(unifiedVertexArray[indexTable[k] + 1], exportVertexArray[k])

\* UnifyVertices has returned for a mesh in which a vertex first seen after a
\* duplicate is itself duplicated later, with more than one bucket in use.
C1_Witness ==
    /\ pc = "done"
    /\ bucketCount > 1
    /\ \E a, b \in Processed :
          /\ a < b
          /\ AttrEq(exportVertexArray[a], exportVertexArray[b])
          /\ indexTable[a] = indexTable[b]
          /\ indexTable[a] < a - 1

\* C2: the unique sequence built from vertices hashed by Hash() never holds
\* two entries at distinct positions that are attribute-equal.
C2_Minimality ==
    InUnify =>
        \A a, b \in DOMAIN unifiedVertexArray :
            a # b => ~AttrEq(unifiedVertexArray[a], unifiedVertexArray[b])

\* UnifyVertices has returned at least two unique vertices after dropping a
\* duplicate that came from another source vertex.
C2_Witness ==
    /\ pc = "done"
    /\ Len(unifiedVertexArray) >= 2
    /\ \E a, b \in Processed :
          /\ a < b
          /\ AttrEq(exportVertexArray[a], exportVertexArray[b])
          /\ exportVertexArray[a].vertexIndex # exportVertexArray[b].vertexIndex

\* C3: after every pass of the main loop and after the return, every entry
\* of indexTable is a position of unifiedVertexArray.
C3_IndexValid ==
    InUnify =>
        \A k \in DOMAIN indexTable :
            0 <= indexTable[k] /\ indexTable[k] < Len(unifiedVertexArray)

\* The main loop is under way, after a duplicate and before the last vertex.
C3_Witness ==
    /\ pc = "unify"
    /\ i < Len(exportVertexArray)
    /\ SomeDuplicate
    /\ Len(unifiedVertexArray) < Len(indexTable)

\* C4: starting from the empty indexTable, each pass of the main loop
\* appends one entry (after i passes indexTable has i entries), and on
\* return indexTable is as long as exportVertexArray.
C4_Completeness ==
    /\ pc = "unify" => Len(indexTable) = i
    /\ pc = "done" => Len(indexTable) = Len(exportVertexArray)

\* UnifyVertices has returned for a non-empty input with duplicates.
C4_Witness ==
    /\ pc = "done"
    /\ Len(exportVertexArray) > 0
    /\ SomeDuplicate
    /\ Len(indexTable) = Len(exportVertexArray)

\* The first position from j on that holds a vertex attribute-equal to
\* vertex k (position k at the latest).
RECURSIVE FirstEqualFrom(_, _)
FirstEqualFrom(j, k) ==
    IF j >= k \/ AttrEq(exportVertexArray[j], exportVertexArray[k]) THEN j
    ELSE FirstEqualFrom(j + 1, k)

\* The earliest expanded vertex attribute-equal to vertex k.
FirstOccurrence(k) == FirstEqualFrom(1, k)

\* The positions among 1 .. k that are first occurrences, in order.
RECURSIVE FirstOccurrencesUpTo(_)
FirstOccurrencesUpTo(k) ==
    IF k = 0 THEN <<>>
    ELSE IF FirstOccurrence(k) = k THEN Append(FirstOccurrencesUpTo(k - 1), k)
    ELSE FirstOccurrencesUpTo(k - 1)

\* The 0-based position of x in a sequence without repetitions (Len(seq) when
\* x is not in it).
RECURSIVE PositionIn(_, _)
PositionIn(seq, x) ==
    IF seq = <<>> \/ Head(seq) = x THEN 0
    ELSE 1 + PositionIn(Tail(seq), x)

\* C5: the unique sequence lists the distinct vertices in the order of their
\* first appearance, and indexTable[k] is the unique-sequence position of the
\* earliest expanded vertex that is attribute-equal to vertex k.
C5_FirstOccurrenceWins ==
    InUnify =>
        LET firsts == FirstOccurrencesUpTo(i)
        IN  /\ Len(unifiedVertexArray) = Len(firsts)
            /\ \A u \in DOMAIN firsts :
                  /\ u \in DOMAIN unifiedVertexArray
                  /\ unifiedVertexArray[u] = exportVertexArray[firsts[u]]
            /\ \A k \in Processed :
                  /\ k \in DOMAIN indexTable
                  /\ indexTable[k] = PositionIn(firsts, FirstOccurrence(k))

\* UnifyVertices has returned, and a vertex seen for the first time after a
\* duplicate was duplicated later by a vertex with another source vertex.
C5_Witness ==
    /\ pc = "done"
    /\ \E a, b \in Processed :
          /\ a < b
          /\ FirstOccurrence(b) = a
          /\ indexTable[a] < a - 1
          /\ indexTable[b] = indexTable[a]
    /\ \E a, b \in Processed :
          /\ FirstOccurrence(b) = a
          /\ exportVertexArray[a].vertexIndex # exportVertexArray[b].vertexIndex
          /\ unifiedVertexArray[indexTable[b] + 1].vertexIndex
                = exportVertexArray[a].vertexIndex

\* C6: when UnifyVertices has returned, two expanded vertices with the same
\* hash that differ in position, normal, tangent, color, texcoord0 or
\* texcoord1 have different entries in indexTable.
C6_NoFalseMerge ==
    pc = "done" =>
        \A a, b \in Processed :
            ( /\ exportVertexArray[a].hash = exportVertexArray[b].hash
              /\ ~AttrEq(exportVertexArray[a], exportVertexArray[b]) )
            => ( /\ a \in DOMAIN indexTable
                 /\ b \in DOMAIN indexTable
                 /\ indexTable[a] # indexTable[b] )

\* UnifyVertices has returned for an input with two vertices of one hash and
\* different attributes, both in one of several buckets.
C6_Witness ==
    /\ pc = "done"
    /\ bucketCount > 1
    /\ \E a, b \in Processed :
          /\ exportVertexArray[a].hash = exportVertexArray[b].hash
          /\ ~AttrEq(exportVertexArray[a], exportVertexArray[b])
          /\ BucketOf(exportVertexArray[a], bucketCount)
                = BucketOf(exportVertexArray[b], bucketCount)
          /\ indexTable[a] # indexTable[b]

\* DeindexMesh has hashed every expanded vertex and UnifyVertices, which
\* compares them, is about to run.
Hashed == pc = "unify_begin"

\* Every attribute of the data model compares equal.
AllListedEqual(a, b) ==
    /\ a.vertexIndex = b.vertexIndex
    /\ a.faceIndex = b.faceIndex
    /\ a.hash = b.hash
    /\ AttrEq(a, b)

\* C7 as stated: two ExportVertex instances are equal if and only if
\* vertexIndex, faceIndex, position, normal, tangent, color, texcoord0,
\* texcoord1 and hash all compare equal.
C7_EqIffAllListed ==
    Hashed =>
        \A a, b \in DOMAIN exportVertexArray :
            ExportVertexEq(exportVertexArray[a], exportVertexArray[b])
                <=> AllListedEqual(exportVertexArray[a], exportVertexArray[b])

\* C7 as amended: two ExportVertex instances are equal if and only if hash,
\* position, normal, tangent, color, texcoord0 and texcoord1 all compare
\* equal; vertexIndex and faceIndex are not compared.
C7_EqIffComparedAttributes ==
    Hashed =>
        \A a, b \in DOMAIN exportVertexArray :
            ExportVertexEq(exportVertexArray[a], exportVertexArray[b])
                <=> ( /\ exportVertexArray[a].hash = exportVertexArray[b].hash
                      /\ AttrEq(exportVertexArray[a], exportVertexArray[b]) )

\* UnifyVertices has merged two vertices that __eq__ found equal although
\* their vertexIndex and faceIndex differ, and kept apart two vertices of one
\* hash that __eq__ found different.
C7_Witness ==
    /\ pc = "done"
    /\ \E a, b \in Processed :
          /\ ExportVertexEq(exportVertexArray[a], exportVertexArray[b])
          /\ exportVertexArray[a].vertexIndex # exportVertexArray[b].vertexIndex
          /\ exportVertexArray[a].faceIndex # exportVertexArray[b].faceIndex
          /\ indexTable[a] = indexTable[b]
    /\ \E a, b \in Processed :
          /\ exportVertexArray[a].hash = exportVertexArray[b].hash
          /\ ~ExportVertexEq(exportVertexArray[a], exportVertexArray[b])
          /\ indexTable[a] # indexTable[b]

\* No two vertices of the expanded sequence are attribute-equal.
AllDistinct ==
    \A a, b \in DOMAIN exportVertexArray :
        a # b => ~AttrEq(exportVertexArray[a], exportVertexArray[b])

\* C8: if no two vertices of the expanded sequence are equal, UnifyVertices
\* returns the expanded sequence itself, element by element, and indexTable
\* is 0, 1, ..., n-1.
C8_OrderStability ==
    (pc = "done" /\ AllDistinct) =>
        /\ unifiedVertexArray = exportVertexArray
        /\ indexTable = [k \in 1..Len(exportVertexArray) |-> k - 1]

\* UnifyVertices has returned for six pairwise different vertices, two of
\* them with the same hash.
C8_Witness ==
    /\ pc = "done"
    /\ AllDistinct
    /\ Len(exportVertexArray) >= 6
    /\ SomeCollision
    /\ Len(indexTable) = Len(exportVertexArray)

\* C9: a second call of UnifyVertices on the same expanded sequence, with a
\* fresh empty indexTable, returns the unique sequence and leaves the
\* indexTable that the first call did.
C9_Determinism ==
    (pc = "done" /\ call >= 2) =>
        firstResult = <<unifiedVertexArray, indexTable>>

\* The second call has returned for an input with duplicates and several
\* unique vertices spread over more than one bucket.
C9_Witness ==
    /\ pc = "done"
    /\ call = 2
    /\ SomeDuplicate
    /\ Len(unifiedVertexArray) >= 2
    /\ bucketCount > 1
    /\ \A b \in DOMAIN hashTable : hashTable[b] # <<>>

\* C10: DeindexMesh builds, for a mesh of T triangular faces, 3*T records in
\* corner order: records 3t, 3t+1, 3t+2 are corners 0, 1, 2 of face t, with
\* faceIndex t and vertexIndex the face's c-th vertex id.  While the face
\* loop runs the same holds of the faces done so far.
C10_DeindexCornerOrder ==
    LET T == IF pc \in {"faces", "failed"} THEN faceIndex ELSE Len(mesh.polygons)
    IN  /\ Len(exportVertexArray) = 3 * T
        /\ \A t \in 0..(T - 1) : \A c \in 0..2 :
              /\ exportVertexArray[3 * t + c + 1].faceIndex = t
              /\ exportVertexArray[3 * t + c + 1].vertexIndex
                    = mesh.polygons[t + 1].vertices[c + 1]

\* DeindexMesh has returned for a mesh of two different faces.
C10_Witness ==
    /\ pc = "unify_begin"
    /\ call = 0
    /\ Len(mesh.polygons) = 2
    /\ mesh.polygons[1].vertices # mesh.polygons[2].vertices
    /\ Len(exportVertexArray) = 6

\* The faces the face loop of DeindexMesh has completed.
FacesDone == IF pc \in {"faces", "failed"} THEN faceIndex ELSE Len(mesh.polygons)

\* The color and texcoord passes of DeindexMesh are over.
Filled == pc \notin {"faces", "failed", "colors", "texcoords"}

\* C11: DeindexMesh, given an empty materialTable, leaves it with one entry
\* per face in face order, entry t being face t's material slot; the
\* expanded sequence is three times as long as materialTable.  While the face
\* loop runs the same holds of the faces done so far.
C11_MaterialTable ==
    /\ Len(materialTable) = FacesDone
    /\ \A t \in 1..FacesDone :
          materialTable[t] = mesh.polygons[t].material_index
    /\ Len(exportVertexArray) = 3 * Len(materialTable)

\* DeindexMesh has returned for a mesh whose two faces use different
\* material slots, the first not slot 0.
C11_Witness ==
    /\ pc = "unify_begin"
    /\ call = 0
    /\ Len(materialTable) = 2
    /\ materialTable[1] = 1
    /\ materialTable[2] = 0

\* C12: every corner of a non-smooth face has the face's normal, whatever
\* the normals of its vertices are; every corner of a smooth face has the
\* normal of its own vertex.
C12_FlatShadingOverride ==
    \A t \in 0..(FacesDone - 1) : \A c \in 0..2 :
        LET face == mesh.polygons[t + 1]
        IN  exportVertexArray[3 * t + c + 1].normal =
               IF face.use_smooth
               THEN mesh.vertices[face.vertices[c + 1] + 1].normal
               ELSE face.normal

\* DeindexMesh has returned for a mesh with a smooth face and a flat face
\* whose normal differs from the normals of all its vertices.
C12_Witness ==
    /\ pc = "unify_begin"
    /\ call = 0
    /\ \E t \in DOMAIN mesh.polygons : mesh.polygons[t].use_smooth
    /\ \E t \in DOMAIN mesh.polygons :
          /\ ~mesh.polygons[t].use_smooth
          /\ \A c \in 1..3 :
                /\ mesh.vertices[mesh.polygons[t].vertices[c] + 1].normal
                      # mesh.polygons[t].normal
                /\ exportVertexArray[3 * (t - 1) + c].normal = mesh.polygons[t].normal

\* C13: once the color and texcoord passes are over, corner c of triangle f
\* has color (1,1,1) without a color layer and else the c-th color of entry f
\* of the first color layer; texcoord0 is (0,0) without a UV layer and else
\* the first layer's uv of the corner's loop; texcoord1 is (0,0) with fewer
\* than two UV layers and else the second layer's uv of the corner's loop.
C13_ColorAndTexcoordFill ==
    Filled =>
        \A f \in 0..(Len(mesh.polygons) - 1) : \A c \in 0..2 :
            LET ev == exportVertexArray[3 * f + c + 1]
                loop_index == mesh.loop_triangles[f + 1].loops[c + 1]
                cf == mesh.vertex_colors[1].data[f + 1]
            IN  /\ ev.color =
                      IF Len(mesh.vertex_colors) = 0 THEN <<1, 1, 1>>
                      ELSE IF c = 0 THEN cf.color1
                      ELSE IF c = 1 THEN cf.color2
                      ELSE cf.color3
                /\ ev.texcoord0 =
                      IF Len(mesh.uv_layers) = 0 THEN <<0, 0>>
                      ELSE mesh.uv_layers[1].data[loop_index + 1].uv
                /\ ev.texcoord1 =
                      IF Len(mesh.uv_layers) < 2 THEN <<0, 0>>
                      ELSE mesh.uv_layers[2].data[loop_index + 1].uv

\* DeindexMesh has filled a face whose three colors differ, from a mesh with
\* a color layer and three UV layers whose first two differ at a corner.
C13_Witness ==
    /\ pc = "unify_begin"
    /\ Len(mesh.vertex_colors) = 1
    /\ Len(mesh.uv_layers) = 3
    /\ Len(exportVertexArray) >= 3
    /\ exportVertexArray[1].color # exportVertexArray[2].color
    /\ exportVertexArray[2].color # exportVertexArray[3].color
    /\ \E n \in DOMAIN exportVertexArray :
          /\ exportVertexArray[n].texcoord0 # exportVertexArray[n].texcoord1
          /\ exportVertexArray[n].texcoord1 # <<0, 0>>
          /\ exportVertexArray[n].texcoord1 # <<1, 1>>

\* C14: DeindexMesh checks a face for exactly 3 vertices before it emits
\* anything for it.  When the call has failed, the face it stands at is the
\* first that is not a triangle, exactly the faces before it have their 3
\* records and their material entry, and nothing was returned or unified.
\* When the face loop is over without failure, every face is a triangle.
C14_TrianglePrecondition ==
    /\ \A t \in 1..FacesDone : Len(mesh.polygons[t].vertices) = 3
    /\ pc = "failed" =>
          /\ faceIndex < Len(mesh.polygons)
          /\ Len(mesh.polygons[faceIndex + 1].vertices) # 3
          /\ Len(exportVertexArray) = 3 * faceIndex
          /\ Len(materialTable) = faceIndex
          /\ call = 0
          /\ unifiedVertexArray = <<>>
          /\ indexTable = <<>>

\* The assertion has failed at a quad that follows a triangle.
C14_Witness ==
    /\ pc = "failed"
    /\ faceIndex = 1
    /\ Len(mesh.polygons[2].vertices) = 4
    /\ Len(exportVertexArray) = 3

\* C15: for a mesh without faces DeindexMesh fails nowhere and returns an
\* empty expanded sequence with materialTable left empty, and UnifyVertices
\* returns an empty unique sequence with indexTable left empty, having
\* allocated one empty bucket.
C15_EmptyMesh ==
    Len(mesh.polygons) = 0 =>
        /\ pc # "failed"
        /\ exportVertexArray = <<>>
        /\ materialTable = <<>>
        /\ unifiedVertexArray = <<>>
        /\ indexTable = <<>>
        /\ InUnify => bucketCount = 1 /\ hashTable = << <<>> >>

\* UnifyVertices has returned for the mesh without faces.
C15_Witness ==
    /\ Len(mesh.polygons) = 0
    /\ pc = "done"
    /\ call >= 1

\* All expanded vertices agree in every attribute.
AllIdentical ==
    \A a, b \in DOMAIN exportVertexArray :
        AttrEq(exportVertexArray[a], exportVertexArray[b])

\* C16: when all n >= 1 expanded vertices are attribute-identical,
\* UnifyVertices returns a unique sequence of length 1 and an indexTable of n
\* zeros, and all vertices fell in one bucket.  After each pass of the main
\* loop the same holds of the vertices processed so far.
C16_AllIdentical ==
    (InUnify /\ i >= 1 /\ AllIdentical) =>
        /\ Len(unifiedVertexArray) = 1
        /\ Len(indexTable) = i
        /\ \A k \in 1..i : indexTable[k] = 0
        /\ \A k \in DOMAIN exportVertexArray :
              BucketOf(exportVertexArray[k], bucketCount)
                 = BucketOf(exportVertexArray[1], bucketCount)
        /\ Cardinality({b \in DOMAIN hashTable : hashTable[b] # <<>>}) = 1

\* UnifyVertices has returned for 18 attribute-identical vertices, which come
\* from different vertex ids and faces, with more than one bucket allocated.
C16_Witness ==
    /\ pc = "done"
    /\ AllIdentical
    /\ Len(exportVertexArray) = 3 * BigFaces
    /\ bucketCount > 1
    /\ exportVertexArray[1].vertexIndex # exportVertexArray[2].vertexIndex
    /\ Len(unifiedVertexArray) = 1

\* The location of corner c of face t.
CornerPosition(t, c) == mesh.vertices[mesh.polygons[t].vertices[c] + 1].co

\* What the mesh gives for corner c of triangle t: the normal of its vertex,
\* the tangent of its loop, its color in the first color layer and its uv in
\* the first two UV layers, as far as the layers exist.
CornerData(t, c) ==
    LET face == mesh.polygons[t]
        loop_index == mesh.loop_triangles[t].loops[c]
        cf == mesh.vertex_colors[1].data[t]
    IN  << mesh.vertices[face.vertices[c] + 1].normal,
           mesh.loops[face.loop_indices[c] + 1].tangent,
           IF Len(mesh.vertex_colors) = 0 THEN <<>>
           ELSE IF c = 1 THEN cf.color1 ELSE IF c = 2 THEN cf.color2 ELSE cf.color3,
           [n \in 1..(IF Len(mesh.uv_layers) < 2 THEN Len(mesh.uv_layers) ELSE 2) |->
               mesh.uv_layers[n].data[loop_index + 1].uv] >>

\* The mesh is two smooth-shaded triangles sharing an edge: 6 corners at 4
\* distinct locations, each triangle with 3 distinct locations, and the
\* corners at one location agree in normal, tangent, color and uv.
SharedEdgeScenario ==
    /\ Len(mesh.polygons) = 2
    /\ \A t \in 1..2 :
          /\ mesh.polygons[t].use_smooth
          /\ Len(mesh.polygons[t].vertices) = 3
          /\ Cardinality({CornerPosition(t, c) : c \in 1..3}) = 3
    /\ Cardinality({CornerPosition(t, c) : t \in 1..2, c \in 1..3}) = 4
    /\ \A c, d \in 1..3 :
          CornerPosition(1, c) = CornerPosition(2, d)
             => CornerData(1, c) = CornerData(2, d)

\* C17: for two smooth-shaded triangles sharing an edge whose attributes
\* agree at the shared locations, DeindexMesh followed by UnifyVertices gives
\* a unique sequence of length 4 and an indexTable of length 6 in which the
\* two corners at each shared location have the same index.
C17_SharedEdge ==
    (pc = "done" /\ SharedEdgeScenario) =>
        /\ Len(unifiedVertexArray) = 4
        /\ Len(indexTable) = 6
        /\ \A a, b \in 1..6 :
              exportVertexArray[a].position = exportVertexArray[b].position
                 => indexTable[a] = indexTable[b]

\* The scenario has been unified, with a color layer and two UV layers, and
\* the shared corners sit at different corner numbers of the two triangles.
C17_Witness ==
    /\ pc = "done"
    /\ SharedEdgeScenario
    /\ Len(mesh.vertex_colors) = 1
    /\ Len(mesh.uv_layers) = 2
    /\ mesh.polygons[1].normal # mesh.polygons[2].normal
    /\ indexTable = <<0, 1, 2, 3, 2, 1>>

\* s is t or t with entries appended.
IsPrefix(s, t) ==
    /\ Len(s) <= Len(t)
    /\ \A k \in 1..Len(s) : s[k] = t[k]

\* UnifyVertices is running: ExportGeometry has made its indexTable and the
\* call has not returned.
UnifyRunning == pc \in {"unify_begin", "unify"}

\* DeindexMesh is running.
DeindexRunning == pc \in {"faces", "colors", "texcoords", "hash"}

\* C18: no step of UnifyVertices changes exportVertexArray (length, order,
\* or any attribute, hash included) and no step of DeindexMesh changes the
\* mesh; indexTable and materialTable are only appended to, their earlier
\* entries staying as they are.
C18_Frame ==
    [][ /\ mesh' = mesh
        /\ UnifyRunning =>
              /\ exportVertexArray' = exportVertexArray
              /\ IsPrefix(indexTable, indexTable')
              /\ materialTable' = materialTable
        /\ (DeindexRunning /\ pc' # "unify_begin") =>
              /\ IsPrefix(materialTable, materialTable')
              /\ indexTable' = indexTable
      ]_vars

\* UnifyVertices has appended to indexTable for a duplicate and DeindexMesh
\* has appended two material entries.
C18_Witness ==
    /\ pc = "unify"
    /\ SomeDuplicate
    /\ Len(indexTable) >= 4
    /\ Len(materialTable) >= 2

\* The triangles using material slot m, in their original order.
TrianglesOfSlot(m) ==
    SelectSeq([t \in 1..Len(materialTable) |-> t - 1],
              LAMBDA t : materialTable[t + 1] = m)

\* The sum of the triangle counts of the index arrays n, n + 1, ...
RECURSIVE CountSum(_)
CountSum(n) ==
    IF n > Len(indexArrays) THEN 0
    ELSE indexArrays[n].count + CountSum(n + 1)

\* C20: ExportGeometry writes one index array for every material slot that
\* some triangle uses, slots ascending; the array of slot m holds, for the
\* triangles t with materialTable[t] = m in their original order, the three
\* entries indexTable[3t], indexTable[3t+1], indexTable[3t+2], and nothing
\* else.  So each triangle appears in exactly one array, three indices per
\* triangle are written in all, the counts sum to triangleCount, and every
\* written index is a position in the unique-vertex sequence.
C20_TriangleIndexOutput ==
    pc = "written" =>
        /\ \A t \in DOMAIN materialTable :
              Cardinality({a \in DOMAIN indexArrays :
                              indexArrays[a].material_slot = materialTable[t]}) = 1
        /\ \A a, b \in DOMAIN indexArrays :
              a < b => indexArrays[a].material_slot < indexArrays[b].material_slot
        /\ \A a \in DOMAIN indexArrays :
              LET arr == indexArrays[a]
                  ts == TrianglesOfSlot(arr.material_slot)
              IN  /\ Len(ts) >= 1
                  /\ arr.count = Len(ts)
                  /\ Len(arr.data) = 3 * Len(ts)
                  /\ \A j \in 1..Len(ts) : \A c \in 1..3 :
                        arr.data[3 * (j - 1) + c] = indexTable[3 * ts[j] + c]
                  /\ \A n \in DOMAIN arr.data :
                        arr.data[n] \in 0..(Len(unifiedVertexArray) - 1)
        /\ CountSum(1) = Len(materialTable)

\* The index arrays of a mesh are written whose triangles use slots 0 and 2
\* but not slot 1, slot 0 used by several triangles that are not adjacent in
\* the mesh, and whose indexTable is not constant.
C20_Witness ==
    /\ pc = "written"
    /\ Len(indexArrays) = 2
    /\ indexArrays[1].material_slot = 0
    /\ indexArrays[2].material_slot = 2
    /\ indexArrays[1].count >= 2
    /\ materialTable[2] = 2
    /\ \E n \in DOMAIN indexTable : indexTable[n] # indexTable[1]

\* The expanded vertex DeindexMesh returns at position n (from 1) for mesh m
\* when nothing else runs: corner n of the face sequence, filled and hashed.
AloneExpandedVertex(m, n) ==
    LET f == (n - 1) \div 3
        c == ((n - 1) % 3) + 1
        face == m.polygons[f + 1]
        loop_index == m.loop_triangles[f + 1].loops[c]
        cf == m.vertex_colors[1].data[f + 1]
        filled == [DeindexCorner(m, face, c, f) EXCEPT
                      !.color = IF Len(m.vertex_colors) = 0 THEN <<1, 1, 1>>
                                ELSE IF c = 1 THEN cf.color1
                                ELSE IF c = 2 THEN cf.color2
                                ELSE cf.color3,
                      !.texcoord0 = IF Len(m.uv_layers) = 0 THEN <<0, 0>>
                                    ELSE m.uv_layers[1].data[loop_index + 1].uv,
                      !.texcoord1 = IF Len(m.uv_layers) < 2 THEN <<0, 0>>
                                    ELSE m.uv_layers[2].data[loop_index + 1].uv]
    IN  [filled EXCEPT !.hash = Hash(filled)]

\* The unique sequence and the index table UnifyVertices returns for eva
\* when nothing else runs, by a linear scan for the first equal vertex.
RECURSIVE AloneUnified(_, _, _, _)
AloneUnified(eva, n, unified, table) ==
    IF n > Len(eva) THEN <<unified, table>>
    ELSE LET equal == {k \in 1..(n - 1) : ExportVertexEq(eva[k], eva[n])}
             first == CHOOSE k \in equal : \A j \in equal : k <= j
         IN  IF equal = {}
             THEN AloneUnified(eva, n + 1, Append(unified, eva[n]),
                               Append(table, Len(unified)))
             ELSE AloneUnified(eva, n + 1, unified, Append(table, table[first]))

\* The invocation inv has ended as it ends when it runs alone: failed if its
\* mesh has a face that is not a triangle, and else returned with the
\* expanded sequence, material table, unique sequence and index table of its
\* mesh.
EndedAsAlone(inv) ==
    LET m == inv.mesh
        triangles == \A t \in DOMAIN m.polygons : Len(m.polygons[t].vertices) = 3
        eva == [n \in 1..(3 * Len(m.polygons)) |-> AloneExpandedVertex(m, n)]
    IN  /\ inv.pc = "failed" => ~triangles
        /\ inv.pc = "done" =>
              /\ triangles
              /\ inv.exportVertexArray = eva
              /\ inv.materialTable =
                    [t \in DOMAIN m.polygons |-> m.polygons[t].material_index]
              /\ <<inv.unifiedVertexArray, inv.indexTable>>
                    = AloneUnified(eva, 1, <<>>, <<>>)

\* C19: when the steps of two Deindex+Unify invocations on different meshes,
\* each with its own output sequences, are interleaved in any way, each
\* invocation ends with exactly the outputs it has when it runs alone (the
\* runs in which one invocation finishes before the other starts are among
\* the interleavings).
C19_ParallelSafety ==
    /\ EndedAsAlone(Current)
    /\ EndedAsAlone(peer)

\* Both invocations stand inside the main loop of UnifyVertices, each after
\* some passes and before its last, and the running one has met a duplicate.
C19_Witness ==
    /\ pc = "unify"
    /\ peer.pc = "unify"
    /\ 0 < i /\ i < Len(exportVertexArray)
    /\ 0 < peer.i /\ peer.i < Len(peer.exportVertexArray)
    /\ Len(unifiedVertexArray) < i
    /\ Len(unifiedVertexArray) > 1
    /\ mesh # peer.mesh

\* The magnitude mag modulo m, 0 < m < 2^15.
RECURSIVE MagModSmall(_, _)
MagModSmall(mag, m) ==
    IF mag = <<>> THEN 0
    ELSE (Head(mag) + (Base % m) * MagModSmall(Tail(mag), m)) % m

\* The unbounded int h modulo m (floored), 0 < m < 2^15.
BigModSmall(h, m) ==
    LET r == MagModSmall(h.mag, m)
    IN  IF h.neg THEN (m - r) % m ELSE r

\* -2^63 <= h < 2^63.
In64BitRange(h) ==
    \/ Len(h.mag) < 4
    \/ Len(h.mag) = 4 /\ h.mag[4] < 2^15
    \/ h.neg /\ h.mag = <<0, 0, 0, 2^15>>

\* C21 as stated: the hash Hash() stores on every ExportVertex is within
\* 64-bit range.
C21_HashWithin64Bit ==
    Hashed =>
        \A n \in DOMAIN exportVertexArray :
            In64BitRange(exportVertexArray[n].hash)

\* C21 amended: the hash Hash() stores is an integer of unbounded size that
\* no step of the accumulation reduces, so it differs from the native hash
\* of its last scalar, texcoord1[1], by an exact multiple of 21737.
C21_HashUnreduced ==
    Hashed =>
        \A n \in DOMAIN exportVertexArray :
            BigModSmall(exportVertexArray[n].hash, HashMultiplier)
               = PyHash(exportVertexArray[n].texcoord1[2]) % HashMultiplier

\* DeindexMesh has hashed a vertex whose hash needs more than 64 bits and
\* one, with a negative first scalar, whose hash is negative.
C21_Witness ==
    /\ Hashed
    /\ \E n \in DOMAIN exportVertexArray :
          ~In64BitRange(exportVertexArray[n].hash)
    /\ \E n \in DOMAIN exportVertexArray :
          /\ exportVertexArray[n].hash.neg
          /\ Len(exportVertexArray[n].hash.mag) > 4

\* C22: in DeindexMesh no vertex has a hash while faces, colors or texcoords
\* are being written; the hashing pass starts on the finished sequence, and
\* each of its steps calls Hash() on the next vertex, which had no hash yet,
\* changing nothing else; so every vertex is hashed exactly once, and at the
\* handoff to UnifyVertices every vertex has the hash of its final attributes.
C22_HashOrdering ==
    [][ /\ pc' \in {"faces", "failed", "colors", "texcoords"} =>
              \A n \in DOMAIN exportVertexArray' :
                  exportVertexArray'[n].hash = NoHash
        /\ (pc # "hash" /\ pc' = "hash") =>
              /\ exportVertexArray' = exportVertexArray
              /\ evIndex' = 0
        /\ (pc = "hash" /\ pc' = "hash") =>
              /\ evIndex' = evIndex + 1
              /\ exportVertexArray[evIndex + 1].hash = NoHash
              /\ exportVertexArray' = [exportVertexArray EXCEPT
                    ![evIndex + 1].hash = Hash(exportVertexArray[evIndex + 1])]
        /\ (pc = "hash" /\ pc' = "unify_begin") =>
              /\ evIndex = Len(exportVertexArray)
              /\ exportVertexArray' = exportVertexArray
              /\ \A n \in DOMAIN exportVertexArray :
                    /\ exportVertexArray[n].hash # NoHash
                    /\ exportVertexArray[n].hash = Hash(exportVertexArray[n])
      ]_vars

\* The hashing pass stands in the middle of a sequence whose colors and
\* texcoords were written after the corners were created: the vertices
\* before evIndex are hashed, the others are not.
C22_Witness ==
    /\ pc = "hash"
    /\ 0 < evIndex /\ evIndex < Len(exportVertexArray)
    /\ Len(mesh.vertex_colors) > 0
    /\ Len(mesh.uv_layers) > 1
    /\ exportVertexArray[evIndex].hash # NoHash
    /\ exportVertexArray[evIndex + 1].hash = NoHash
    /\ exportVertexArray[evIndex].color # <<1, 1, 1>>
    /\ exportVertexArray[evIndex].texcoord0 # <<0, 0>>

\* b is a power of two.
IsPowerOfTwo(b) == \E e \in 0..30 : b = 2^e

\* C23: for a sequence of n vertices UnifyVertices allocates 1 bucket when
\* n >> 3 <= 1 and else the largest power of two not exceeding n >> 3; the
\* count is fixed before the main loop and stays as it is during the loop
\* and at return.
C23_BucketSizing ==
    pc \in {"alloc", "unify", "done"} =>
        LET shifted == Len(exportVertexArray) \div 8
        IN  /\ IF shifted <= 1 THEN bucketCount = 1
               ELSE /\ IsPowerOfTwo(bucketCount)
                    /\ bucketCount <= shifted
                    /\ shifted < 2 * bucketCount
            /\ bucketCount = BucketCountFor(Len(exportVertexArray))
            /\ pc # "alloc" => Len(hashTable) = bucketCount

\* The main loop runs with 4 buckets for a length whose shifted value, 7, is
\* not a power of two.
C23_Witness ==
    /\ pc = "unify"
    /\ Len(exportVertexArray) \div 8 = 7
    /\ bucketCount = 4
    /\ i > 0

\* The bucket number UnifyVertices computes for the vertex its main loop
\* stands at.
NextBucket == BucketOf(exportVertexArray[i + 1], bucketCount)

\* C26: for every vertex the main loop of UnifyVertices comes to, whatever
\* the sign and size of its hash, the bucket number hash & (bucketCount - 1)
\* lies in 0 .. bucketCount-1, equals the hash modulo bucketCount (floored),
\* and names a bucket of hashTable.
C26_BucketInRange ==
    (pc = "unify" /\ i < Len(exportVertexArray)) =>
        /\ NextBucket \in 0..(bucketCount - 1)
        /\ NextBucket = BigModSmall(exportVertexArray[i + 1].hash, bucketCount)
        /\ NextBucket + 1 \in DOMAIN hashTable

\* The main loop stands at a vertex with a negative hash beyond 64 bits that
\* goes to the last of 4 buckets.
C26_Witness ==
    /\ pc = "unify"
    /\ i < Len(exportVertexArray)
    /\ bucketCount = 4
    /\ exportVertexArray[i + 1].hash.neg
    /\ ~In64BitRange(exportVertexArray[i + 1].hash)
    /\ NextBucket = 3

\* The lowest set bit of b > 0.
RECURSIVE LowestSetBit(_)
LowestSetBit(b) == IF b % 2 = 1 THEN 1 ELSE 2 * LowestSetBit(b \div 2)

\* C29: UnifyVertices terminates for every input.  Each pass of the rounding
\* loop that goes on clears the lowest set bit of bucketCount, which gets
\* strictly smaller and stays >= 1; the loop is left with bucketCount
\* unchanged, >= 1 and a power of two; each pass of the main loop advances i
\* by one over a bucket no longer than i, and the call returns after exactly
\* len(exportVertexArray) passes.
C29_Termination ==
    /\ <>(pc = "done")
    /\ [][ /\ (pc = "round" /\ pc' = "round") =>
                /\ bucketCount' = bucketCount - LowestSetBit(bucketCount)
                /\ bucketCount' < bucketCount
                /\ bucketCount' >= 1
           /\ (pc = "round" /\ pc' # "round") =>
                /\ bucketCount' = bucketCount
                /\ bucketCount >= 1
                /\ IsPowerOfTwo(bucketCount)
           /\ (pc = "unify" /\ pc' = "unify") =>
                /\ i < Len(exportVertexArray)
                /\ i' = i + 1
                /\ Len(hashTable[NextBucket + 1]) <= i
           /\ (pc = "unify" /\ pc' = "done") =>
                /\ i = Len(exportVertexArray)
                /\ i' = i
      ]_vars

\* The rounding loop stands between its passes with a bucketCount, 6, that
\* still has two bits set.
C29_Witness ==
    /\ pc = "round"
    /\ Len(exportVertexArray) \div 8 = 7
    /\ bucketCount = 6

\* The native hashes c0 .. c15 of the 16 scalars of a vertex, in the order
\* position.xyz, normal.xyz, tangent.xyz, color.rgb, texcoord0.uv,
\* texcoord1.uv.
NativeHashes(ev) ==
    << PyHash(ev.position[1]), PyHash(ev.position[2]), PyHash(ev.position[3]),
       PyHash(ev.normal[1]), PyHash(ev.normal[2]), PyHash(ev.normal[3]),
       PyHash(ev.tangent[1]), PyHash(ev.tangent[2]), PyHash(ev.tangent[3]),
       PyHash(ev.color[1]), PyHash(ev.color[2]), PyHash(ev.color[3]),
       PyHash(ev.texcoord0[1]), PyHash(ev.texcoord0[2]),
       PyHash(ev.texcoord1[1]), PyHash(ev.texcoord1[2]) >>

\* h = c[1], then h = h * 21737 + c[k] for k = 2 .. 16, computed modulo p
\* (p < 2^15) on c[1 .. k].
RECURSIVE PolynomialMod(_, _, _)
PolynomialMod(c, k, p) ==
    IF k = 1 THEN c[1] % p
    ELSE (PolynomialMod(c, k - 1, p) * HashMultiplier + c[k]) % p

\* Two primes below 2^15 the polynomial is compared under.
CheckPrimes == {32749, 32719}

\* C24: the hash of every vertex is h = c0, then h = h * 21737 + ck for
\* k = 1 .. 15 over the native hashes of its 16 scalars in the fixed order
\* (compared with that polynomial modulo two primes); it depends on those 16
\* values only, so vertices whose 16 scalars hash alike have the same hash
\* whatever their vertexIndex and faceIndex are.
C24_HashPolynomial ==
    Hashed =>
        /\ \A n \in DOMAIN exportVertexArray : \A p \in CheckPrimes :
              BigModSmall(exportVertexArray[n].hash, p)
                 = PolynomialMod(NativeHashes(exportVertexArray[n]), 16, p)
        /\ \A a, b \in DOMAIN exportVertexArray :
              NativeHashes(exportVertexArray[a]) = NativeHashes(exportVertexArray[b])
                 => exportVertexArray[a].hash = exportVertexArray[b].hash

\* DeindexMesh has hashed two vertices that hash alike although they come
\* from different vertex ids and faces, and two that hash alike although a
\* scalar differs (-1 and -2 have one native hash); tangents and texcoords
\* are not all the same.
C24_Witness ==
    /\ Hashed
    /\ \E a, b \in DOMAIN exportVertexArray :
          /\ exportVertexArray[a].vertexIndex # exportVertexArray[b].vertexIndex
          /\ exportVertexArray[a].faceIndex # exportVertexArray[b].faceIndex
          /\ exportVertexArray[a].hash = exportVertexArray[b].hash
          /\ AttrEq(exportVertexArray[a], exportVertexArray[b])
    /\ \E a, b \in DOMAIN exportVertexArray :
          /\ exportVertexArray[a].position # exportVertexArray[b].position
          /\ NativeHashes(exportVertexArray[a]) = NativeHashes(exportVertexArray[b])
    /\ \E a, b \in DOMAIN exportVertexArray :
          /\ exportVertexArray[a].tangent # exportVertexArray[b].tangent
          /\ exportVertexArray[a].texcoord0 # exportVertexArray[b].texcoord0

\* The entries of the buckets b, b + 1, ... of hashTable, counted.
RECURSIVE BucketEntries(_)
BucketEntries(b) ==
    IF b > Len(hashTable) THEN 0
    ELSE Len(hashTable[b]) + BucketEntries(b + 1)

\* C25: after the first i vertices are processed, indexTable has i entries
\* and the buckets together hold Len(unifiedVertexArray) entries; each entry
\* is the expanded index j < i of a first occurrence, sits in the bucket its
\* hash selects, is larger than the entries before it in its bucket, and
\* indexTable[j] is the position at which that very vertex stands in the
\* unique sequence.
C25_BucketTable ==
    InUnify =>
        /\ Len(indexTable) = i
        /\ BucketEntries(1) = Len(unifiedVertexArray)
        /\ \A b \in DOMAIN hashTable : \A e \in DOMAIN hashTable[b] :
              LET j == hashTable[b][e]
              IN  /\ 0 <= j /\ j < i
                  /\ \A k \in 1..j :
                        ~AttrEq(exportVertexArray[k], exportVertexArray[j + 1])
                  /\ BucketOf(exportVertexArray[j + 1], bucketCount) = b - 1
                  /\ e > 1 => hashTable[b][e - 1] < j
                  /\ indexTable[j + 1] \in 0..(Len(unifiedVertexArray) - 1)
                  /\ unifiedVertexArray[indexTable[j + 1] + 1]
                        = exportVertexArray[j + 1]

\* The main loop has processed duplicates and filled four buckets, one of
\* them with two vertices of the same hash.
C25_Witness ==
    /\ pc = "unify"
    /\ bucketCount = 4
    /\ i > Len(unifiedVertexArray)
    /\ \A b \in DOMAIN hashTable : hashTable[b] # <<>>
    /\ \E b \in DOMAIN hashTable :
          /\ Len(hashTable[b]) >= 2
          /\ exportVertexArray[hashTable[b][1] + 1].hash
                = exportVertexArray[hashTable[b][2] + 1].hash

\* C27: indexTable is a restricted-growth sequence onto the unique set: its
\* first entry is 0, every later entry is at most one more than some entry
\* before it, and every position of unifiedVertexArray occurs in it; so the
\* unique sequence is never longer than the part of the expanded sequence
\* processed.
C27_RestrictedGrowth ==
    InUnify =>
        /\ i >= 1 => indexTable[1] = 0
        /\ \A k \in 2..Len(indexTable) :
              \E j \in 1..(k - 1) : indexTable[k] <= indexTable[j] + 1
        /\ \A u \in 0..(Len(unifiedVertexArray) - 1) :
              \E k \in DOMAIN indexTable : indexTable[k] = u
        /\ Len(unifiedVertexArray) <= i
        /\ i <= Len(exportVertexArray)

\* UnifyVertices has returned an indexTable that repeats an earlier entry
\* and later takes a new one.
C27_Witness ==
    /\ pc = "done"
    /\ Len(unifiedVertexArray) >= 3
    /\ \E a, b, c \in DOMAIN indexTable :
          /\ a < b /\ b < c
          /\ indexTable[a] = indexTable[b]
          /\ indexTable[c] > indexTable[b]
          /\ \A k \in 1..(c - 1) : indexTable[k] < indexTable[c]

\* The main loop of UnifyVertices has run at least in part.
AfterUnifyBegin == pc \in {"unify", "done", "morphs", "skinned", "exported"}

\* Two expanded vertices agree on hash and on every attribute.
Agree(a, b) == a.hash = b.hash /\ AttrEq(a, b)

\* The first expanded vertex that agrees with the k-th.
FirstEqual(k) ==
    CHOOSE f \in 1..k :
        /\ Agree(exportVertexArray[f], exportVertexArray[k])
        /\ \A e \in 1..(f - 1) :
              ~Agree(exportVertexArray[e], exportVertexArray[k])

\* The morph mesh of morph target b.
MorphMeshOf(b) == ToMesh([node EXCEPT !.active_shape_key_index = b])

\* The sum of the first u entries of a sequence of numbers.
RECURSIVE PrefixSum(_, _)
PrefixSum(counts, u) == IF u = 0 THEN 0 ELSE counts[u] + PrefixSum(counts, u - 1)

\* C28: expanded vertices that agree on hash and on every attribute but
\* differ in vertexIndex or faceIndex are merged into one unique entry,
\* which carries the vertexIndex and faceIndex of the earliest of them; the
\* morph target position and normal arrays and the bone influence arrays
\* hold, at the entry of every merged corner, the source data of that
\* earliest corner's vertexIndex and faceIndex.
C28_SourceVertexIdentity ==
    AfterUnifyBegin =>
        \A k \in Processed :
            LET f == FirstEqual(k)
                u == indexTable[k] + 1
                first == exportVertexArray[f]
            IN
            /\ indexTable[k] = indexTable[f]
            /\ unifiedVertexArray[u].vertexIndex = first.vertexIndex
            /\ unifiedVertexArray[u].faceIndex = first.faceIndex
            /\ \A j \in DOMAIN morphArrays :
                  LET morphMesh == MorphMeshOf(morphArrays[j].morph)
                      face == morphMesh.loop_triangles[first.faceIndex + 1]
                  IN
                  /\ morphArrays[j].position[u] =
                        morphMesh.vertices[first.vertexIndex + 1].co
                  /\ morphArrays[j].normal[u] =
                        (IF face.use_smooth
                         THEN morphMesh.vertices[first.vertexIndex + 1].normal
                         ELSE face.normal)
            /\ \A j \in DOMAIN skinArrays :
                  LET infl == Influences(VertexGroups[first.vertexIndex + 1], 1)
                      start == PrefixSum(skinArrays[j].boneCountArray, u - 1)
                  IN
                  /\ skinArrays[j].boneCountArray[u] = Len(infl)
                  /\ \A e \in DOMAIN infl :
                        /\ skinArrays[j].boneIndexArray[start + e] = infl[e].boneIndex
                        /\ skinArrays[j].boneWeightArray[start + e][1] = infl[e].boneWeight

\* The export is over, with morph targets and skin written, for a mesh with
\* a corner merged into an earlier corner of another vertex and another
\* face, whose own vertex has another morph position, morph normal and
\* number of bones than the ones written for it.
C28_Witness ==
    /\ pc = "exported"
    /\ morphArrays # <<>>
    /\ skinArrays # <<>>
    /\ \E k \in DOMAIN exportVertexArray :
          LET f == FirstEqual(k)
              u == indexTable[k] + 1
              own == exportVertexArray[k]
              morphMesh == MorphMeshOf(morphArrays[1].morph)
          IN
          /\ f < k
          /\ own.vertexIndex # exportVertexArray[f].vertexIndex
          /\ own.faceIndex # exportVertexArray[f].faceIndex
          /\ morphArrays[1].position[u] # morphMesh.vertices[own.vertexIndex + 1].co
          /\ morphArrays[1].normal[u] # morphMesh.vertices[own.vertexIndex + 1].normal
          /\ skinArrays[1].boneCountArray[u] #
                Len(Influences(VertexGroups[own.vertexIndex + 1], 1))

\* C30: when ExportGeometry completes without error, the node's
\* active_shape_key_index and show_only_shape_key and the value of every
\* key block are what they were at entry; for a mesh with shape keys they
\* are overwritten in between (index 0, True, block 0 at 1.0 and the others
\* at 0.0 while the mesh is deindexed and unified); for a mesh without shape
\* keys they are never written.
C30_MorphStateRestored ==
    /\ pc = "exported" => node = entered
    /\ ~GetShapeKeys(entered) => node = entered
    /\ GetShapeKeys(entered) /\ pc \notin {"enter", "morphs", "skinned", "exported"} =>
          /\ node.active_shape_key_index = 0
          /\ node.show_only_shape_key
          /\ node.key_blocks =
                [k \in DOMAIN entered.key_blocks |-> IF k = 1 THEN 10 ELSE 0]
    /\ GetShapeKeys(entered) /\ pc \in {"morphs", "skinned"} =>
          /\ node.show_only_shape_key
          /\ \A k \in DOMAIN node.key_blocks : node.key_blocks[k] \in {0, 10}

\* ExportGeometry has completed for a mesh with shape keys whose state at
\* entry differed from everything the export wrote: another active index,
\* the flag off, and values of 0.3; every morph target was written.
C30_Witness ==
    /\ pc = "exported"
    /\ GetShapeKeys(entered)
    /\ entered.active_shape_key_index # 0
    /\ ~entered.show_only_shape_key
    /\ \A k \in DOMAIN entered.key_blocks : entered.key_blocks[k] = 3
    /\ Len(morphArrays) = Len(entered.key_blocks) - 1
    /\ Len(morphArrays) >= 2
    /\ unifiedVertexArray # <<>>

====
